---- MODULE Spec2Model ----
(***************************************************************************)
(* Request-to-action dispatch engine of aio-cli-plugin-app-dev             *)
(* (src/src/lib/run-dev.js): serveWebAction, createActionParametersFrom-   *)
(* Request, invokeAction, invokeSequence and httpStatusResponse.           *)
(*                                                                         *)
(* Every `await` of the JavaScript code is a point where another request   *)
(* handler may run; the code between two awaits is one atomic action.      *)
(***************************************************************************)
EXTENDS Integers, Sequences, FiniteSets, TLC

(***************************************************************************)
(* Bounds                                                                  *)
(***************************************************************************)
NumTasks == 2

Tasks == 1..NumTasks

(***************************************************************************)
(* JavaScript values.  A value is a record of one shape: t is the type,    *)
(* s the content of a string, o the properties of an object.  A JavaScript *)
(* object (params, headers, req.query, a parsed body, process.env inputs)  *)
(* is a function from property names to values; <<>> is the empty object.  *)
(***************************************************************************)
Undefined == [t |-> "undefined", s |-> "", o |-> <<>>]

Str(s) == [t |-> "string", s |-> s, o |-> <<>>]

Obj(o) == [t |-> "object", s |-> "", o |-> o]

\* the truthiness of a value: undefined and '' are falsy
Truthy(v) == v.t = "object" \/ (v.t = "string" /\ v.s # "")

\* { ...a, ...b } and Object.assign(a, b): the later source wins
Spread(a, b) == [k \in (DOMAIN a) \cup (DOMAIN b) |-> IF k \in DOMAIN b THEN b[k] ELSE a[k]]

\* obj[key], undefined when the property is absent
Get(obj, key) == IF key \in DOMAIN obj THEN obj[key] ELSE Undefined

(***************************************************************************)
(* Response bodies: undefined, a string, or an object {error: <message>}.  *)
(***************************************************************************)
NoBody == [t |-> "undefined", text |-> "", error |-> ""]

StrBody(s) == [t |-> "string", text |-> s, error |-> ""]

ErrBody(msg) == [t |-> "object", text |-> "", error |-> msg]

(***************************************************************************)
(* Strings the model manipulates character-wise: String.toLowerCase on    *)
(* the header names and HTTP methods that occur in the model.              *)
(***************************************************************************)
toLowerCase(str) ==
  CASE str = "Authorization" -> "authorization"
    [] str = "AUTHORIZATION" -> "authorization"
    [] str = "X-GW-IMS-ORG-ID" -> "x-gw-ims-org-id"
    [] str = "GET" -> "get"
    [] str = "POST" -> "post"
    [] OTHER -> str

\* the property names of the model in one fixed order (JSON.stringify and
\* URLSearchParams walk the properties of an object in insertion order)
KeyOrder == <<"__ow_headers", "authorization", "Authorization", "AUTHORIZATION",
              "x-gw-ims-org-id", "X-GW-IMS-ORG-ID", "x-forwarded-for", "content-type", "payload", "some">>

RECURSIVE SerializeObjFrom(_, _, _)
\* the properties of obj as one string, from KeyOrder[i] on; a string value
\* is itself, an object value the list of its own properties
SerializeObjFrom(obj, i, sep) ==
  IF i > Len(KeyOrder) THEN ""
  ELSE IF KeyOrder[i] \in DOMAIN obj
       THEN LET v == obj[KeyOrder[i]]
                text == IF v.t = "object" THEN "{" \o SerializeObjFrom(v.o, 1, sep) \o "}" ELSE v.s
            IN  KeyOrder[i] \o sep \o text \o ";" \o SerializeObjFrom(obj, i + 1, sep)
       ELSE SerializeObjFrom(obj, i + 1, sep)

\* JSON.stringify(obj)
JSONstringify(obj) == "json{" \o SerializeObjFrom(obj, 1, ":") \o "}"

\* new URLSearchParams(obj).toString()
URLSearchParamsToString(obj) == "qs[" \o SerializeObjFrom(obj, 1, "=") \o "]"

\* Buffer.from(str).toString('base64'): nothing encodes to nothing
base64(str) == IF str = "" THEN "" ELSE "base64(" \o str \o ")"

(***************************************************************************)
(* Request bodies as the express middleware hands them over: null, a       *)
(* parsed object, a string or a Buffer.                                    *)
(***************************************************************************)
NullBody == [t |-> "null", s |-> "", o |-> <<>>]

ObjectBody(o) == [t |-> "object", s |-> "", o |-> o]

StringBody(s) == [t |-> "string", s |-> s, o |-> <<>>]

BufferBody(s) == [t |-> "buffer", s |-> s, o |-> <<>>]

\* utils.isEmptyObject: no own enumerable property
isEmptyObject(body) ==
  \/ body.t = "null"
  \/ body.t = "object" /\ DOMAIN body.o = {}
  \/ body.t = "buffer" /\ body.s = ""

\* a transform that forgets the empty object
bodyTransformToRawOfAnything(body) ==
  IF body.t = "string" THEN base64(body.s)
  ELSE IF body.t = "buffer" THEN base64(body.s)
  ELSE IF body.t = "object" THEN base64(JSONstringify(body.o))
  ELSE ""

\* a transform that leaves a string as it is
bodyTransformToRawKeepsStrings(body) ==
  IF body.t = "string" THEN body.s
  ELSE IF body.t = "buffer" THEN base64(body.s)
  ELSE IF body.t = "object" /\ DOMAIN body.o # {} THEN base64(JSONstringify(body.o))
  ELSE ""

\* utils.bodyTransformToRaw
bodyTransformToRaw(body) ==
  IF body.t = "string" THEN base64(body.s)
  ELSE IF body.t \in {"object", "buffer", "null"} /\ ~isEmptyObject(body)
       THEN IF body.t = "buffer" THEN base64(body.s) ELSE base64(JSONstringify(body.o))
       ELSE ""

(***************************************************************************)
(* The action configuration (devConfig.manifest.full.packages), read-only  *)
(* for the life of the process.  `function` is the path of the action's    *)
(* source as a list of segments; `actions` of a sequence is the manifest's *)
(* comma-separated string as a list of tokens (names, "," and " ").        *)
(***************************************************************************)
NoItem == [defined |-> FALSE, function |-> <<>>, requireAdobeAuth |-> FALSE,
           web |-> "undefined", webExport |-> "undefined", inputs |-> <<>>,
           hasActions |-> FALSE, actions |-> <<>>]

Action(fn, auth, web) ==
  [defined |-> TRUE, function |-> fn, requireAdobeAuth |-> auth,
   web |-> web, webExport |-> "undefined", inputs |-> <<>>,
   hasActions |-> FALSE, actions |-> <<>>]

Sequence(actions) ==
  [defined |-> TRUE, function |-> <<>>, requireAdobeAuth |-> FALSE,
   web |-> "yes", webExport |-> "undefined", inputs |-> <<>>,
   hasActions |-> TRUE, actions |-> actions]

\* an action with static inputs
WithInputs(item, inputs) == [item EXCEPT !.inputs = inputs]

\* `both` names an action and a sequence of the package; quiet is a sequence
\* that is not web; the package twin is pkg with the action hidden flagged web
ActionConfig ==
  [pkg |-> [inputs |-> ("pkgInput" :> Str("pkg")) @@ ("shared" :> Str("pkg"))
                       @@ ("namespace" :> Str("${__OW_NAMESPACE}")),
            actions |-> [open |-> WithInputs(Action(<<"actions", "open", "index.js">>, FALSE, "yes"),
                                             "openInput" :> Str("open")),
                         secure |-> WithInputs(Action(<<"actions", "secure", "index.js">>, TRUE, "yes"),
                                               ("shared" :> Str("secure")) @@ ("body" :> Str("static"))),
                         hidden |-> Action(<<"actions", "hidden", "index.js">>, TRUE, "no"),
                         raw |-> WithInputs(Action(<<"actions", "raw", "index.js">>, FALSE, "raw"),
                                            "__ow_path" :> Str("static")),
                         both |-> Action(<<"actions", "both", "index.js">>, FALSE, "yes")],
            sequences |-> [chain |-> Sequence(<<"open", ",", "secure">>),
                           broken |-> Sequence(<<"open", ",", " ", "ghost">>),
                           quiet |-> [Sequence(<<"open">>) EXCEPT !.web = "no"],
                           both |-> Sequence(<<"open">>)]],
   twin |-> [inputs |-> ("pkgInput" :> Str("pkg")) @@ ("shared" :> Str("pkg"))
                        @@ ("namespace" :> Str("${__OW_NAMESPACE}")),
             actions |-> [hidden |-> Action(<<"actions", "hidden", "index.js">>, TRUE, "yes")],
             sequences |-> <<>>]]

\* actionConfig[packageName]?.actions?.[name]
ConfigAction(packageName, name) ==
  IF packageName \in DOMAIN ActionConfig /\ name \in DOMAIN ActionConfig[packageName].actions
  THEN ActionConfig[packageName].actions[name] ELSE NoItem

\* actionConfig[packageName]?.sequences?.[name]
ConfigSequence(packageName, name) ==
  IF packageName \in DOMAIN ActionConfig /\ name \in DOMAIN ActionConfig[packageName].sequences
  THEN ActionConfig[packageName].sequences[name] ELSE NoItem

\* actionConfig?.[packageName]?.inputs
PackageInputs(packageName) ==
  IF packageName \in DOMAIN ActionConfig THEN ActionConfig[packageName].inputs ELSE <<>>

\* path.dirname
dirname(path) == IF Len(path) = 0 THEN <<>> ELSE SubSeq(path, 1, Len(path) - 1)

isWebAction(action) ==
  LET toBoolean(value) == value \notin {"no", "false", "undefined"}
  IN  toBoolean(action.webExport) \/ toBoolean(action.web)

isRawWebAction(action) == action.webExport = "raw" \/ action.web = "raw"

(***************************************************************************)
(* Parameter Builder                                                       *)
(***************************************************************************)
(***************************************************************************)
(* interpolate.  The pattern works on characters, so the string it is      *)
(* applied to is a list of characters; a run of word characters that no    *)
(* quote follows is matched as a whole and may be one element of the list  *)
(* (__OW_NAMESPACE).  props is a table from names to strings.              *)
(* The pattern has three alternatives, ${NAME}, $NAME and {NAME}, NAME     *)
(* being \w+, each between a negative lookbehind and a negative lookahead  *)
(* for a quote character.                                                  *)
(***************************************************************************)
\* the backtick, which a string of the model cannot hold
Backtick == "<backtick>"

\* the quote characters of the lookbehind and the lookahead
IsQuote(c) == c \in {"'", "\"", Backtick}

\* \w, among the characters of the model
IsWord(c) == c \notin {"", "'", "\"", Backtick, "$", "{", "}", " ", ","}

\* the character at position i, "" outside the string
CharAt(str, i) == IF i >= 1 /\ i <= Len(str) THEN str[i] ELSE ""

RECURSIVE WordRun(_, _)
\* the length of the longest run of word characters from position i
WordRun(str, i) == IF IsWord(CharAt(str, i)) THEN 1 + WordRun(str, i + 1) ELSE 0

NoMatch == [len |-> 0, name |-> <<>>]

\* the first alternative, ${NAME}, at position i
MatchDollarBraces(str, i) ==
  LET n == WordRun(str, i + 2)
  IN  IF /\ ~IsQuote(CharAt(str, i - 1))
         /\ CharAt(str, i) = "$" /\ CharAt(str, i + 1) = "{"
         /\ n >= 1
         /\ CharAt(str, i + 2 + n) = "}"
         /\ ~IsQuote(CharAt(str, i + 3 + n))
      THEN [len |-> n + 3, name |-> SubSeq(str, i + 2, i + 1 + n)]
      ELSE NoMatch

\* the second alternative, $NAME, at position i: \w+ takes the whole run,
\* and gives its last character back when a quote follows the run
MatchDollar(str, i) ==
  LET n == WordRun(str, i + 1)
      m == IF IsQuote(CharAt(str, i + 1 + n)) THEN n - 1 ELSE n
  IN  IF ~IsQuote(CharAt(str, i - 1)) /\ CharAt(str, i) = "$" /\ m >= 1
      THEN [len |-> m + 1, name |-> SubSeq(str, i + 1, i + m)]
      ELSE NoMatch

\* the third alternative, {NAME}, at position i
MatchBraces(str, i) ==
  LET n == WordRun(str, i + 1)
  IN  IF /\ ~IsQuote(CharAt(str, i - 1))
         /\ CharAt(str, i) = "{"
         /\ n >= 1
         /\ CharAt(str, i + 1 + n) = "}"
         /\ ~IsQuote(CharAt(str, i + 2 + n))
      THEN [len |-> n + 2, name |-> SubSeq(str, i + 1, i + n)]
      ELSE NoMatch

\* the alternatives of the pattern, in their order
Match(str, i) ==
  IF MatchDollarBraces(str, i).len > 0 THEN MatchDollarBraces(str, i)
  ELSE IF MatchDollar(str, i).len > 0 THEN MatchDollar(str, i)
  ELSE MatchBraces(str, i)

RECURSIVE Concat(_)
\* the characters as one string
Concat(chars) == IF chars = <<>> THEN "" ELSE chars[1] \o Concat(Tail(chars))

\* a name that is not in the table left as it is
ReplacementOrName(props, varName) ==
  IF varName \in DOMAIN props THEN props[varName] ELSE varName

\* hasOwnProperty.call(props, varName) ? props[varName] : ''
Replacement(props, varName) ==
  IF varName \in DOMAIN props THEN props[varName] ELSE ""

RECURSIVE ReplaceFrom(_, _, _)
\* String.replace with the global pattern, from position i on: a match is
\* replaced and the search goes on behind it
ReplaceFrom(str, i, props) ==
  IF i > Len(str) THEN ""
  ELSE LET m == Match(str, i)
       IN  IF m.len > 0
           THEN Replacement(props, Concat(m.name)) \o ReplaceFrom(str, i + m.len, props)
           ELSE str[i] \o ReplaceFrom(str, i + 1, props)

\* valueString.replace(pattern, callback)
ReplaceVariables(str, props) == ReplaceFrom(str, 1, props)

\* the characters of the strings of the configuration
Chars(str) ==
  CASE str = "${__OW_NAMESPACE}" -> <<"$", "{", "__OW_NAMESPACE", "}">>
    [] OTHER -> <<str>>

\* process.env as a table
EnvTable(processEnv) ==
  ("__OW_NAMESPACE" :> processEnv.ns)
  @@ (IF processEnv.actId # 0 THEN "__OW_ACTIVATION_ID" :> ToString(processEnv.actId) ELSE <<>>)
  @@ (IF processEnv.actionName # "" THEN "__OW_ACTION_NAME" :> processEnv.actionName ELSE <<>>)

\* interpolate: a value that is not a string passes unchanged
interpolate(valueString, props) ==
  IF valueString.t # "string" THEN valueString
  ELSE Str(ReplaceVariables(Chars(valueString.s), props))

\* the static inputs spread first, the query over them
InputsThenQuery(base, query, inputs) == Spread(Spread(base, inputs), query)

\* { ...base, ...req.query, ...action.inputs }
QueryThenInputs(base, query, inputs) == Spread(Spread(base, query), inputs)

\* a body that is merged only when it is JSON
BodyHandlingJsonOnly(isRaw, isJson, isFormData) ==
  IF isRaw THEN IF isFormData THEN "query string" ELSE "raw"
  ELSE IF isJson THEN "merge" ELSE "raw"

\* the branch taken for the body of a POST
BodyHandling(isRaw, isJson, isFormData) ==
  IF isRaw THEN IF isFormData THEN "query string" ELSE "raw"
  ELSE IF isJson \/ isFormData THEN "merge" ELSE "raw"

\* createActionParametersFromRequest; processEnv is process.env at the call
createActionParametersFromRequest(req, contextItem, actionInputs, processEnv) ==
  LET inputs == [key \in DOMAIN actionInputs |-> interpolate(actionInputs[key], EnvTable(processEnv))]
      base == ("__ow_headers" :> Obj(Spread(req.headers, "x-forwarded-for" :> Str("127.0.0.1"))))
              @@ ("__ow_query" :> Obj(req.query))
              @@ ("__ow_method" :> Str(toLowerCase(req.method)))
      params == QueryThenInputs(base, req.query, inputs)
      isJson == req.is = "application/json"
      isFormData == req.is = "application/x-www-form-urlencoded"
      isRaw == isRawWebAction(contextItem)
      handling == BodyHandling(isRaw, isJson, isFormData)
  IN  IF params["__ow_method"] = Str("post") /\ req.body.t # "null"
      THEN CASE handling = "query string" ->
                  Spread(params, "__ow_body" :> Str(URLSearchParamsToString(req.body.o)))
             [] handling = "merge" -> Spread(params, req.body.o)
             [] handling = "raw" -> Spread(params, "__ow_body" :> Str(bodyTransformToRaw(req.body)))
      ELSE params

(***************************************************************************)
(* Auth Gate (the first lines of invokeAction)                             *)
(***************************************************************************)
\* the required headers checked in the other order
requiredAuthHeadersSwapped == <<"x-gw-ims-org-id", "authorization">>

requiredAuthHeaders == <<"authorization", "x-gw-ims-org-id">>

\* the header names compared as they were sent
owHeadersOfAsSent(params) ==
  LET hdrs == Get(params, "__ow_headers")
  IN  IF hdrs.t = "object" THEN hdrs.o ELSE <<>>

\* params.__ow_headers with every key lowercased.  The header objects of
\* the model carry at most one spelling of a name.
owHeadersOf(params) ==
  LET hdrs == Get(params, "__ow_headers")
      keys == IF hdrs.t = "object" THEN DOMAIN hdrs.o ELSE {}
  IN  [l \in {toLowerCase(k) : k \in keys} |-> hdrs.o[CHOOSE k \in keys : toLowerCase(k) = l]]

\* the check made for every action, annotated or not
MissingAuthHeaderAnyAction(action, params) ==
  LET owHeaders == owHeadersOf(params)
      missing(i) == ~Truthy(Get(owHeaders, requiredAuthHeaders[i]))
  IN  IF missing(1) THEN requiredAuthHeaders[1]
      ELSE IF missing(2) THEN requiredAuthHeaders[2]
      ELSE ""

\* the first required header that is missing, "" when the check passes
MissingAuthHeader(action, params) ==
  LET owHeaders == owHeadersOf(params)
      missing(i) == ~Truthy(Get(owHeaders, requiredAuthHeaders[i]))
  IN  IF ~action.requireAdobeAuth THEN ""
      ELSE IF missing(1) THEN requiredAuthHeaders[1]
      ELSE IF missing(2) THEN requiredAuthHeaders[2]
      ELSE ""

(***************************************************************************)
(* What an action function returns: undefined, a string, an array or an    *)
(* object.  props are the own properties of a returned object; statusCode  *)
(* 0 stands for an absent (or zero, equally falsy) status.                 *)
(***************************************************************************)
NoError == [truthy |-> FALSE, statusCode |-> 0, body |-> NoBody]

ErrorField(statusCode, body) == [truthy |-> TRUE, statusCode |-> statusCode, body |-> body]

NoResponse ==
  [t |-> "undefined", props |-> {}, statusCode |-> 0, body |-> NoBody,
   headers |-> Undefined, error |-> NoError, payload |-> Undefined]

\* an object {statusCode, body, headers, payload}; payload is one more field
ObjectResponse(statusCode, body, headers, payload) ==
  [t |-> "object",
   props |-> (IF statusCode # 0 THEN {"statusCode"} ELSE {})
             \cup (IF body.t # "undefined" THEN {"body"} ELSE {})
             \cup (IF headers.t # "undefined" THEN {"headers"} ELSE {})
             \cup (IF payload.t # "undefined" THEN {"payload"} ELSE {}),
   statusCode |-> statusCode, body |-> body, headers |-> headers,
   error |-> NoError, payload |-> payload]

\* an object {error: {statusCode, body}, statusCode, body}
ErrorResponse(error, statusCode, body) ==
  [t |-> "object",
   props |-> {"error"} \cup (IF statusCode # 0 THEN {"statusCode"} ELSE {})
                       \cup (IF body.t # "undefined" THEN {"body"} ELSE {}),
   statusCode |-> statusCode, body |-> body, headers |-> Undefined,
   error |-> error, payload |-> Undefined]

StringResponse == [NoResponse EXCEPT !.t = "string"]

\* an array with one element and a property payload
ArrayResponse == [NoResponse EXCEPT !.t = "array", !.props = {"0", "payload"}, !.payload = Str("6")]

(***************************************************************************)
(* InvocationResult (ActionResponse).  props are the keys of the returned  *)
(* object literal; isNull is the null that invokeSequence starts with.     *)
(***************************************************************************)
NullResult ==
  [isNull |-> TRUE, props |-> {}, statusCode |-> 0, body |-> NoBody,
   headers |-> Undefined, error |-> NoError, payload |-> Undefined]

\* { statusCode, body: { error } }
ErrorResult(statusCode, message) ==
  [isNull |-> FALSE, props |-> {"statusCode", "body"}, statusCode |-> statusCode,
   body |-> ErrBody(message), headers |-> Undefined, error |-> NoError, payload |-> Undefined]

InvalidResponse == "Response is not valid 'message/http'."

\* an omitted status answered as "no content"
StatusOrDefault204(statusCode) == IF statusCode = 0 THEN 204 ELSE statusCode

\* statusCode || 200
StatusOrDefault(statusCode) == IF statusCode = 0 THEN 200 ELSE statusCode

\* an error property that is never looked at
ErrorNeverSupersedes(response) == FALSE

\* if (response.error)
ErrorSupersedes(response) == response.error.truthy

\* every object has its other properties passed on, errors too
PassesPropertiesOfErrors(isObject, isError) == isObject

\* isObject && !isError ? response : {}
PassesProperties(isObject, isError) == isObject /\ ~isError

\* the shaping of the action's return value (the try block of invokeAction
\* after the await)
NormalizeResponse(response) ==
  LET truthy == response.t \in {"object", "array", "string"}
      headers == IF truthy THEN response.headers ELSE Undefined
      statusCode0 == IF truthy
                     THEN IF ErrorSupersedes(response) THEN response.error.statusCode ELSE response.statusCode
                     ELSE 204
      body0 == IF truthy
               THEN IF ErrorSupersedes(response) THEN response.error.body ELSE response.body
               ELSE StrBody("")
      statusCode == StatusOrDefault(statusCode0)
      body == IF body0.t = "undefined" \/ body0 = StrBody("") THEN StrBody("") ELSE body0
      isError == statusCode >= 400
      isObject == response.t \in {"object", "null"}
      passed == PassesProperties(isObject, isError)
  IN  [isNull |-> FALSE,
       props |-> (IF passed THEN response.props ELSE {}) \cup {"headers", "statusCode", "body"},
       statusCode |-> statusCode, body |-> body, headers |-> headers,
       error |-> IF passed THEN response.error ELSE NoError,
       payload |-> IF passed THEN response.payload ELSE Undefined]

(***************************************************************************)
(* Response rendering                                                      *)
(***************************************************************************)
\* the status codes getReasonPhrase knows, among those of the model
KnownStatusCodes == {200, 204, 400, 401, 403, 404, 500}

\* statusCodeMessage throws for a code getReasonPhrase does not know
statusCodeMessageThrows(statusCode) == statusCode \notin KnownStatusCodes

NoHttp == [sent |-> 0, threw |-> FALSE, status |-> 0, body |-> NoBody, headers |-> Undefined]

\* a response sent without its status: express answers 200
httpStatusResponseNoStatus(actionResponse) ==
  [sent |-> 1, threw |-> FALSE, status |-> 200, body |-> actionResponse.body,
   headers |-> Undefined]

\* httpStatusResponse: what reaches the transport
httpStatusResponse(actionResponse) ==
  IF actionResponse.isNull \/ statusCodeMessageThrows(actionResponse.statusCode)
  THEN [NoHttp EXCEPT !.threw = TRUE]
  ELSE [sent |-> 1, threw |-> FALSE, status |-> actionResponse.statusCode,
        body |-> actionResponse.body,
        headers |-> IF Truthy(actionResponse.headers) THEN actionResponse.headers ELSE Undefined]

(***************************************************************************)
(* State                                                                   *)
(*   env     process.env: ns is __OW_NAMESPACE, actId __OW_ACTIVATION_ID   *)
(*           (0 when unset), actionName __OW_ACTION_NAME ("" when unset)   *)
(*   cwd     process.cwd(), a path as a list of segments                   *)
(*   nextId  the next token crypto.randomBytes hands out: every activation *)
(*           id is fresh                                                   *)
(*   task    one record per caller (an express route handler running       *)
(*           serveWebAction, or a direct caller of invokeSequence)         *)
(*   valueString, retStr   the argument and the result of a call of        *)
(*           interpolate on its own (SpecInterpolate): valueString as a    *)
(*           list of characters, retStr undefined before the call returns  *)
(*   built, requireCache, loadCall, lastRun   the default action loader on  *)
(*           its own (SpecReload): the version of the module built at each *)
(*           build-output path (0: no file), require.cache as a function   *)
(*           from paths to the versions loaded, the invocation between its *)
(*           load and its execution, and the last execution                *)
(*   buildInProgress, fileChanged, undeployedFile   the variables of the   *)
(*           closure of the change handler registered with the watcher     *)
(*           (src/src/lib/actions-watcher.js)                              *)
(*   watcherClosed   watcher.close() has been called                       *)
(*   handlerCalls    the calls of the registered handler that are at an    *)
(*           await, in the order they started                              *)
(*   watchLog        what has happened: the number of change events, the   *)
(*           action files reported during a build and not passed to        *)
(*           buildActions since, whether a build has failed, and the number of          *)
(*           buildActions calls started after a failure                    *)
(*   processes       the process table of the AgentRunner: for an agent    *)
(*           name, the process spawned and its port and debug port         *)
(*           (src/src/lib/agent-runner.js)                                 *)
(*   spawned         the child processes the runner has spawned, in the    *)
(*           order of the spawn calls: each is alive until its exit event, *)
(*           and killed once kill() has signalled it                       *)
(*   runnerCall      the call of startAgents or restartAgents that is at   *)
(*           an await                                                      *)
(*   runnerLog       what has happened: the agents runDev detected, the    *)
(*           agents restarted by the last                                  *)
(*           restartAgents call with the port and debug port read before   *)
(*           the restart, the number of restartAgents calls, and whether   *)
(*           stopAll has run                                               *)
(***************************************************************************)
VARIABLES env, cwd, nextId, task, valueString, retStr,
          built, requireCache, loadCall, lastRun,
          buildInProgress, fileChanged, undeployedFile, watcherClosed, handlerCalls, watchLog,
          processes, spawned, runnerCall, runnerLog

vars == <<env, cwd, nextId, task, valueString, retStr, built, requireCache, loadCall, lastRun,
          buildInProgress, fileChanged, undeployedFile, watcherClosed, handlerCalls, watchLog,
          processes, spawned, runnerCall, runnerLog>>

\* the state of the dispatcher
dispatcher == <<env, cwd, nextId, task>>

\* the state of a call of interpolate on its own
interpolation == <<valueString, retStr>>

\* the state of the default action loader on its own
reloading == <<built, requireCache, loadCall, lastRun>>

\* the state of the actions watcher
watching == <<buildInProgress, fileChanged, undeployedFile, watcherClosed, handlerCalls, watchLog>>

\* the state of the agent runner
supervision == <<processes, spawned, runnerCall, runnerLog>>

\* what the dispatcher leaves alone
outside == <<interpolation, reloading, watching, supervision>>

DistFolder == <<"dist">>

\* `${path.join(distFolder, packageName, actionName)}-temp/index.js`
ActionPath(distFolder, packageName, actionName) ==
  distFolder \o <<packageName, actionName \o "-temp", "index.js">>

ActionPaths == {ActionPath(DistFolder, "pkg", actionName) : actionName \in {"open", "secure"}}

NoLoadCall == [pc |-> "idle", path |-> <<>>, actionFunction |-> 0, builtAtLoad |-> 0, evicted |-> 0]

NoRun == [path |-> <<>>, version |-> 0, builtAtLoad |-> 0, evicted |-> 0]

\* nothing is built, nothing has been loaded
InitReloading ==
  /\ built = [path \in ActionPaths |-> 0]
  /\ requireCache = <<>>
  /\ loadCall = NoLoadCall
  /\ lastRun = NoRun

InitInterpolation ==
  /\ valueString = <<>>
  /\ retStr = Undefined

\* createChangeHandler: let buildInProgress = false, fileChanged = false,
\* undeployedFile = ''
InitWatching ==
  /\ buildInProgress = FALSE
  /\ fileChanged = FALSE
  /\ undeployedFile = ""
  /\ watcherClosed = FALSE
  /\ handlerCalls = <<>>
  /\ watchLog = [changes |-> 0, unbuilt |-> {}, failed |-> FALSE, lateBuilds |-> 0]

\* no call of the runner is at an await
NoRunnerCall == [op |-> "none", agents |-> <<>>, i |-> 0, pc |-> "", port |-> 0, debugPort |-> 0, debugMode |-> FALSE]

\* new Map()
EmptyMap == [key \in {} |-> 0]

\* new AgentRunner(config): this.processes = new Map()
InitSupervision ==
  /\ processes = EmptyMap
  /\ spawned = <<>>
  /\ runnerCall = NoRunnerCall
  /\ runnerLog = [started |-> FALSE, agents |-> <<>>, restarted |-> {}, restarts |-> 0, stopped |-> FALSE]

MaxActivations == 3

InitEnv == [ns |-> "ns", actId |-> 0, actionName |-> ""]

InitCwd == <<"app">>

\* pc          idle, loading (awaiting the loader), running (awaiting the
\*             action), returned (invokeAction has returned, its caller has
\*             not resumed), done
\* kind        http (serveWebAction) or sequence (invokeSequence)
\* invoker     the invoker serveWebAction called
\* reqHeaders  the headers of the HTTP request
\* request     the HTTP request
\* sequenceParams, actions, i   the locals of invokeSequence
\* actionName, params, preCallEnv, originalCwd   the locals of invokeAction
\* snapshot    whether preCallEnv and originalCwd have been taken
\* entryEnv, entryCwd   process.env and cwd when invokeAction was entered
\* actId       the activation id this invocation generated
\* loader      how the loader ended for this invocation (none before)
\* loaderCalls, functionCalls   the calls of the loader and of the action
\*             function this invocation made
\* how, exception, response   how the action function ended, and what it
\*             returned
\* passed      the params of every call of invokeAction of this call, in order
\* result      the InvocationResult (lastActionResponse in a sequence)
\* loaded, invoked, results   the loader calls, the action function calls and
\*             the invocation results of this call, in order
\* http        what httpStatusResponse did
\* warned      the non-web warning was logged
\* exposed     the action code ran while process.env or the cwd were not
\*             the ones its own invocation set
\* disturbed   another invocation wrote process.env or the cwd while this
\*             one was between its snapshot and its return
NoRequest ==
  [url |-> <<>>, method |-> "", headers |-> <<>>, query |-> <<>>,
   body |-> NullBody, is |-> ""]

IdleTask ==
  [pc |-> "idle", kind |-> "none", invoker |-> "none", packageName |-> "",
   itemName |-> "", reqHeaders |-> <<>>, request |-> NoRequest,
   sequenceParams |-> <<>>, actions |-> <<>>, i |-> 0,
   actionName |-> "", params |-> <<>>, snapshot |-> FALSE,
   preCallEnv |-> InitEnv, originalCwd |-> <<>>,
   entryEnv |-> InitEnv, entryCwd |-> <<>>, actId |-> 0,
   loader |-> "none", loaderCalls |-> 0, functionCalls |-> 0,
   how |-> "none", exception |-> "", response |-> NoResponse, passed |-> <<>>,
   result |-> NullResult,
   loaded |-> <<>>, invoked |-> <<>>, results |-> <<>>,
   http |-> NoHttp, warned |-> FALSE, exposed |-> FALSE, disturbed |-> FALSE]

Init ==
  /\ env = InitEnv
  /\ cwd = InitCwd
  /\ nextId = 1
  /\ task = [t \in Tasks |-> IdleTask]
  /\ InitInterpolation
  /\ InitReloading
  /\ InitWatching
  /\ InitSupervision

\* the other invocations that are between their snapshot and their return
\* see the write of invocation t
Disturb(t, tasks) ==
  [u \in Tasks |-> IF u # t /\ tasks[u].pc \in {"loading", "running"}
                   THEN [tasks[u] EXCEPT !.disturbed = TRUE] ELSE tasks[u]]

\* `/${process.env.__OW_NAMESPACE}/${packageName}/${actionName}`
ActionNameMarker(processEnv, packageName, actionName) ==
  "/" \o processEnv.ns \o "/" \o packageName \o "/" \o actionName

\* the activation id written to a copy of process.env, not to process.env
SetActivationIdOnCopy(processEnv, id) == processEnv

\* process.env.__OW_ACTIVATION_ID = crypto.randomBytes(16).toString('hex')
SetActivationId(processEnv, id) == [processEnv EXCEPT !.actId = id]

(***************************************************************************)
(* invokeAction, from its entry to its first await or its early return.    *)
(* tk is the caller's record, action the contextItem.                      *)
(***************************************************************************)
InvokeActionEntry(t, tk, action, actionName, params) ==
  LET missing == MissingAuthHeader(action, params)
      entered == [tk EXCEPT !.actionName = actionName, !.params = params,
                            !.entryEnv = env, !.entryCwd = cwd, !.snapshot = FALSE,
                            !.how = "none", !.exception = "", !.response = NoResponse,
                            !.passed = Append(@, params), !.loader = "none",
                            !.loaderCalls = 0, !.functionCalls = 0,
                            !.exposed = FALSE, !.disturbed = FALSE]
      unauthorized == ErrorResult(401, "cannot authorize request, reason: missing " \o missing \o " header")
  IN  IF missing # ""
      THEN /\ task' = [task EXCEPT ![t] = [entered EXCEPT !.pc = "returned", !.result = unauthorized,
                                                           !.results = Append(@, unauthorized)]]
           /\ UNCHANGED <<env, cwd, nextId>>
      ELSE /\ nextId <= MaxActivations
           /\ env' = SetActivationId(env, nextId)
           /\ nextId' = nextId + 1
           /\ task' = Disturb(t, [task EXCEPT ![t] =
                        [entered EXCEPT !.pc = "loading", !.snapshot = TRUE,
                                        !.preCallEnv = env, !.originalCwd = cwd,
                                        !.actId = nextId, !.loaderCalls = 1,
                                        !.loaded = Append(@, actionName)]])
           /\ UNCHANGED cwd

(***************************************************************************)
(* String helpers of invokeSequence, on token lists                        *)
(***************************************************************************)
RECURSIVE split(_, _)
\* String.split(separator): the pieces between the separators
split(tokens, separator) ==
  IF tokens = <<>> THEN << <<>> >>
  ELSE IF Head(tokens) = separator THEN << <<>> >> \o split(Tail(tokens), separator)
  ELSE LET rest == split(Tail(tokens), separator)
       IN  << <<Head(tokens)>> \o Head(rest) >> \o Tail(rest)

RECURSIVE trimStart(_)
trimStart(tokens) ==
  IF tokens # <<>> /\ Head(tokens) = " " THEN trimStart(Tail(tokens)) ELSE tokens

RECURSIVE trimEnd(_)
trimEnd(tokens) ==
  IF tokens # <<>> /\ tokens[Len(tokens)] = " " THEN trimEnd(SubSeq(tokens, 1, Len(tokens) - 1)) ELSE tokens

\* String.trim
trim(tokens) == trimEnd(trimStart(tokens))

RECURSIVE join(_, _)
\* Array.join(separator), as one string
join(pieces, separator) ==
  IF pieces = <<>> THEN ""
  ELSE IF Len(pieces) = 1 THEN pieces[1]
  ELSE pieces[1] \o separator \o join(Tail(pieces), separator)

\* a number as a JavaScript value
Num(n) == [t |-> "number", s |-> ToString(n), o |-> <<>>]

\* a response body as a JavaScript value
BodyValue(body) ==
  IF body.t = "object" THEN Obj("error" :> Str(body.error))
  ELSE IF body.t = "string" THEN Str(body.text)
  ELSE Undefined

\* the own properties of an InvocationResult, as spread by ...lastActionResponse
ResultProperties(r) ==
  [k \in r.props |->
     CASE k = "statusCode" -> Num(r.statusCode)
       [] k = "body" -> BodyValue(r.body)
       [] k = "headers" -> r.headers
       [] k = "payload" -> r.payload
       [] k = "error" -> Obj(("statusCode" :> Num(r.error.statusCode)) @@ ("body" :> BodyValue(r.error.body)))]

\* every field of the original request handed on to the later steps
SubsequentParamsAll(sequenceParams, packageInputs, actionInputs, lastActionResponse) ==
  Spread(Spread(Spread(sequenceParams, packageInputs), actionInputs),
         ResultProperties(lastActionResponse))

\* the actionParams of the steps after the first:
\* { __ow_headers, __ow_method, ...package inputs, ...action?.inputs, ...lastActionResponse }
SubsequentParams(sequenceParams, packageInputs, actionInputs, lastActionResponse) ==
  Spread(Spread(Spread(
    ("__ow_headers" :> Get(sequenceParams, "__ow_headers"))
    @@ ("__ow_method" :> Get(sequenceParams, "__ow_method")),
    packageInputs), actionInputs), ResultProperties(lastActionResponse))

\* a missing component answered as a missing resource
MissingComponentResult404 == ErrorResult(404, "Sequence component does not exist.")

\* lastActionResponse = { statusCode: 400, body: { error: 'Sequence component does not exist.' } }
MissingComponentResult == ErrorResult(400, "Sequence component does not exist.")

(***************************************************************************)
(* invokeSequence: iteration i of its loop, up to the await of invokeAction *)
(* or to the return.  tk.result is lastActionResponse.                     *)
(***************************************************************************)
SequenceIteration(t, tk, i) ==
  IF i > Len(tk.actions)
  THEN /\ task' = [task EXCEPT ![t] = [tk EXCEPT !.pc = "done", !.i = i]]
       /\ UNCHANGED <<env, cwd, nextId>>
  ELSE LET actionName == join(trim(tk.actions[i]), "")
           action == ConfigAction(tk.packageName, actionName)
           actionParams ==
             IF i = 1 THEN tk.sequenceParams
             ELSE SubsequentParams(tk.sequenceParams, PackageInputs(tk.packageName),
                                   action.inputs, tk.result)
           missing == MissingComponentResult
       IN  IF action.defined
           THEN InvokeActionEntry(t, [tk EXCEPT !.i = i], action, actionName, actionParams)
           ELSE /\ task' = [task EXCEPT ![t] = [tk EXCEPT !.pc = "done", !.i = i, !.result = missing]]
                /\ UNCHANGED <<env, cwd, nextId>>

\* a call of invokeSequence({ actionRequestContext, logger })
InvokeSequence(t, call) ==
  /\ task[t].pc = "idle"
  /\ SequenceIteration(t, [task[t] EXCEPT !.kind = "sequence", !.packageName = call.packageName,
                                          !.sequenceParams = call.contextItemParams,
                                          !.actions = IF call.contextItem.hasActions
                                                      THEN split(call.contextItem.actions, ",")
                                                      ELSE <<>>,
                                          !.result = NullResult], 1)

\* a missing resource answered as a bad request
NotFoundResult400 == ErrorResult(400, "The requested resource does not exist.")

\* { statusCode: 404, body: { error: 'The requested resource does not exist.' } }
NotFoundResult == ErrorResult(404, "The requested resource does not exist.")

\* a dispatcher that serves web actions only
DispatchesWebOnly(invoker, sequence, contextItem) ==
  invoker # "null" /\ ~sequence.defined /\ isWebAction(contextItem)

\* if (invoker && !sequence), contextItem being the resolved item
Dispatches(invoker, sequence, contextItem) == invoker # "null" /\ ~sequence.defined

\* the path that gives way to a parameter of the same name
WithPathUnderParams(params, owPath) == Spread("__ow_path" :> Str(owPath), params)

\* contextItemParams.__ow_path = owPath
WithPath(params, owPath) == Spread(params, "__ow_path" :> Str(owPath))

(***************************************************************************)
(* serveWebAction, from the request to the await of the invoker, or to the *)
(* 404 response.  req.url is req.params[0] split at '/'.                   *)
(***************************************************************************)
ServeWebAction(t, req) ==
  /\ task[t].pc = "idle"
  /\ LET packageName == IF Len(req.url) >= 1 THEN req.url[1] ELSE "undefined"
         contextItemName == IF Len(req.url) >= 2 THEN req.url[2] ELSE "undefined"
         restofPath == SubSeq(req.url, 3, Len(req.url))
         action == ConfigAction(packageName, contextItemName)
         sequence == ConfigSequence(packageName, contextItemName)
         owPath == join(restofPath, "/")
         combinedInputs == Spread(PackageInputs(packageName), action.inputs)
         invoker == IF sequence.defined THEN "invokeSequence"
                    ELSE IF action.defined THEN "invokeAction" ELSE "null"
         contextItem == IF sequence.defined THEN sequence ELSE action
         contextItemParams ==
           WithPath(createActionParametersFromRequest(req, contextItem, combinedInputs, env), owPath)
         tk == [task[t] EXCEPT !.kind = "http", !.packageName = packageName,
                               !.itemName = contextItemName, !.reqHeaders = req.headers,
                               !.request = req]
         notFound == NotFoundResult
     IN  IF Dispatches(invoker, sequence, contextItem)
         THEN InvokeActionEntry(t, [tk EXCEPT !.invoker = invoker, !.warned = ~isWebAction(contextItem)],
                                action, contextItemName, contextItemParams)
         ELSE /\ task' = [task EXCEPT ![t] = [tk EXCEPT !.pc = "done", !.result = notFound,
                                                         !.http = httpStatusResponse(notFound)]]
              /\ UNCHANGED <<env, cwd, nextId>>

(***************************************************************************)
(* invokeAction after `await contextActionLoader(...)`.                    *)
(*   loader  rejects (the module is missing or fails to load), undefined  *)
(*           (the module has no main export) or function                   *)
(*   call    what the call actionFunction(params) does synchronously:      *)
(*           "pending" (it returns a value or a promise) or an exception   *)
(***************************************************************************)
\* the load failure answered as in the earlier variants of the server
LoadFailedResult401(actionName) ==
  ErrorResult(401, InvalidResponse \o " " \o actionName \o " action not found, or does not export main")

LoadFailedResult(actionName) ==
  ErrorResult(400, InvalidResponse \o " " \o actionName \o " action not found, or does not export main")

\* an error that names the activation
NoMainResultOfActivation ==
  ErrorResult(400, InvalidResponse \o " activation " \o ToString(env.actId))

NoMainResult == ErrorResult(400, InvalidResponse)

\* a catch block that hands the exception's message to the client
ExceptionResultLeaks(e) == ErrorResult(400, e)

\* the catch block: the exception e is logged, not returned
ExceptionResult(e) == ErrorResult(400, InvalidResponse)

\* the finally block: process.env = preCallEnv; process.chdir(originalCwd)
Restore(tk) ==
  /\ env' = tk.preCallEnv
  /\ cwd' = tk.originalCwd

LoaderSettles(t, loader, call) ==
  LET tk == task[t]
      action == ConfigAction(tk.packageName, tk.actionName)
      return(r) == [tk EXCEPT !.pc = "returned", !.loader = loader, !.result = r, !.results = Append(@, r)]
  IN  /\ tk.pc = "loading"
      /\ UNCHANGED nextId
      /\ CASE loader = "rejects" ->
                /\ call = "pending"
                /\ task' = [task EXCEPT ![t] = return(LoadFailedResult(tk.actionName))]
                /\ UNCHANGED <<env, cwd>>
           [] loader = "undefined" ->
                /\ call = "pending"
                /\ task' = [task EXCEPT ![t] = return(NoMainResult)]
                /\ UNCHANGED <<env, cwd>>
           [] loader = "function" ->
                LET called == [tk EXCEPT !.loader = loader, !.functionCalls = 1,
                                         !.invoked = Append(@, tk.actionName),
                                         !.exposed = env.actId # tk.actId]
                IN  IF call = "pending"
                    THEN /\ cwd' = dirname(action.function)
                         /\ env' = [env EXCEPT !.actionName = ActionNameMarker(env, tk.packageName, tk.actionName)]
                         /\ task' = Disturb(t, [task EXCEPT ![t] = [called EXCEPT !.pc = "running"]])
                    ELSE /\ Restore(tk)
                         /\ task' = Disturb(t, [task EXCEPT ![t] =
                                      [called EXCEPT !.pc = "returned", !.how = "threw", !.exception = call,
                                                     !.result = ExceptionResult(call),
                                                     !.results = Append(@, ExceptionResult(call))]])

(***************************************************************************)
(* invokeAction after `await actionFunction(params)`: the action's code    *)
(* runs to its end and its promise settles; the result is shaped, the      *)
(* finally block restores process.env and the cwd.                         *)
(*   settle  [how |-> "returned", response |-> ...] or                     *)
(*           [how |-> "rejected", exception |-> ...]                       *)
(***************************************************************************)
ActionSettles(t, settle) ==
  LET tk == task[t]
      action == ConfigAction(tk.packageName, tk.actionName)
      r == IF settle.how = "returned" THEN NormalizeResponse(settle.response)
           ELSE ExceptionResult(settle.exception)
      foreign == \/ env.actId # tk.actId
                 \/ env.actionName # ActionNameMarker(env, tk.packageName, tk.actionName)
                 \/ cwd # dirname(action.function)
  IN  /\ tk.pc = "running"
      /\ Restore(tk)
      /\ task' = Disturb(t, [task EXCEPT ![t] =
                   [tk EXCEPT !.pc = "returned", !.how = settle.how, !.exception = settle.exception,
                              !.response = settle.response,
                              !.result = r, !.results = Append(@, r),
                              !.exposed = @ \/ foreign]])
      /\ UNCHANGED nextId

\* a loop that stops after its first step
SequenceBreaksAlways(lastActionResponse) == TRUE

\* a short-circuit that lets a 400 pass
SequenceBreaksAbove400(lastActionResponse) == lastActionResponse.statusCode > 400

\* invokeSequence: isError = lastActionResponse.statusCode >= 400, break
SequenceBreaks(lastActionResponse) == lastActionResponse.statusCode >= 400

(***************************************************************************)
(* The caller of invokeAction resumes with the InvocationResult:           *)
(* serveWebAction renders it, invokeSequence goes on with its loop.        *)
(***************************************************************************)
CallerResumes(t) ==
  LET tk == task[t]
  IN  /\ tk.pc = "returned"
      /\ IF tk.kind = "http"
         THEN /\ task' = [task EXCEPT ![t] = [tk EXCEPT !.pc = "done", !.http = httpStatusResponse(tk.result)]]
              /\ UNCHANGED <<env, cwd, nextId>>
         ELSE IF SequenceBreaks(tk.result)
              THEN /\ task' = [task EXCEPT ![t] = [tk EXCEPT !.pc = "done"]]
                   /\ UNCHANGED <<env, cwd, nextId>>
              ELSE SequenceIteration(t, tk, tk.i + 1)

\* the caller has consumed the outcome of the call
Collect(t) ==
  /\ task[t].pc = "done"
  /\ task' = [task EXCEPT ![t] = IdleTask]
  /\ UNCHANGED <<env, cwd, nextId>>

(***************************************************************************)
(* Inputs                                                                  *)
(***************************************************************************)
NoHeaders == <<>>

AuthHeaders == ("authorization" :> Str("Bearer tok")) @@ ("x-gw-ims-org-id" :> Str("org"))

UpperAuthHeaders == ("Authorization" :> Str("Bearer tok")) @@ ("X-GW-IMS-ORG-ID" :> Str("org"))

OrgOnlyHeaders == "x-gw-ims-org-id" :> Str("org")

AuthOnlyHeaders == "authorization" :> Str("Bearer tok")

EmptyAuthHeaders == ("authorization" :> Str("")) @@ ("x-gw-ims-org-id" :> Str("org"))

ForgedHeaders == "__ow_headers" :> Obj(("authorization" :> Str("forged")) @@ ("x-gw-ims-org-id" :> Str("forged")))

Request(url, method, headers, query, body, is) ==
  [url |-> url, method |-> method, headers |-> headers, query |-> query, body |-> body, is |-> is]

Get_(url, headers, query) == Request(url, "GET", headers, query, NullBody, "")

Requests ==
  {Get_(<<"pkg", item>>, headers, <<>>) :
     item \in {"open", "secure"},
     headers \in {NoHeaders, AuthHeaders, UpperAuthHeaders, OrgOnlyHeaders, AuthOnlyHeaders, EmptyAuthHeaders}}
  \cup {Get_(<<"pkg", "secure">>, NoHeaders, ForgedHeaders),
        Get_(<<"pkg", "secure">>, OrgOnlyHeaders, "payload" :> Str("1,2,3")),
        Request(<<"pkg", "secure">>, "POST", NoHeaders, <<>>, ObjectBody(ForgedHeaders), "application/json"),
        Request(<<"pkg", "secure">>, "POST", NoHeaders, <<>>, ObjectBody(ForgedHeaders), "text/plain"),
        Request(<<"pkg", "open">>, "POST", NoHeaders, <<>>, StringBody("hello"), "text/plain"),
        Get_(<<"pkg", "hidden", "some", "path">>, AuthHeaders, "__ow_path" :> Str("forged")),
        Get_(<<"pkg", "hidden">>, NoHeaders, <<>>),
        Get_(<<"pkg", "quiet">>, NoHeaders, <<>>),
        Get_(<<"pkg", "secure">>, AuthHeaders,
             ("shared" :> Str("query")) @@ ("pkgInput" :> Str("query")) @@ ("extra" :> Str("query"))),
        Request(<<"pkg", "open", "rest">>, "POST", NoHeaders, "some" :> Str("query"),
                ObjectBody(("some" :> Str("json")) @@ ("openInput" :> Str("json"))
                           @@ ("__ow_path" :> Str("forged"))), "application/json"),
        Request(<<"pkg", "open">>, "POST", NoHeaders, <<>>,
                ObjectBody(("some" :> Str("form")) @@ ("shared" :> Str("form"))),
                "application/x-www-form-urlencoded"),
        Request(<<"pkg", "raw">>, "POST", NoHeaders, <<>>,
                ObjectBody(("some" :> Str("form")) @@ ("payload" :> Str("1"))),
                "application/x-www-form-urlencoded"),
        Request(<<"pkg", "raw">>, "POST", NoHeaders, <<>>, ObjectBody("some" :> Str("json")), "application/json"),
        Request(<<"pkg", "raw">>, "POST", NoHeaders, <<>>, ObjectBody(<<>>), "application/json"),
        Request(<<"pkg", "raw", "a", "b">>, "POST", NoHeaders, <<>>, StringBody("hello"), "text/plain"),
        Request(<<"pkg", "raw">>, "POST", NoHeaders, <<>>, BufferBody("bytes"), "multipart/form-data"),
        Request(<<"pkg", "raw">>, "POST", NoHeaders, <<>>, BufferBody(""), "multipart/form-data"),
        Get_(<<"pkg", "chain">>, AuthHeaders, <<>>),
        Get_(<<"pkg", "broken">>, NoHeaders, <<>>),
        Get_(<<"pkg", "both">>, NoHeaders, <<>>),
        Get_(<<"pkg", "nothing">>, NoHeaders, <<>>),
        Get_(<<"other", "open">>, NoHeaders, <<>>),
        Get_(<<"pkg">>, NoHeaders, <<>>)}

SequenceCall(sequence, headers) ==
  [packageName |-> "pkg", contextItem |-> sequence,
   contextItemParams |-> ("__ow_headers" :> Obj(headers)) @@ ("__ow_method" :> Str("get"))
                         @@ ("__ow_query" :> Obj("payload" :> Str("1,2,3")))
                         @@ ("__ow_path" :> Str("")) @@ ("payload" :> Str("1,2,3"))
                         @@ ("pkgInput" :> Str("pkg")) @@ ("shared" :> Str("pkg"))
                         @@ ("namespace" :> Str("ns"))]

SequenceCalls ==
  {SequenceCall(ConfigSequence("pkg", name), headers) :
     name \in {"chain", "broken"}, headers \in {NoHeaders, AuthHeaders}}
  \cup {SequenceCall(NoItem, NoHeaders),
        SequenceCall([Sequence(<<>>) EXCEPT !.hasActions = FALSE], NoHeaders),
        SequenceCall(Sequence(<<>>), NoHeaders)}

LoaderOutcomes == {"rejects", "undefined", "function"}

Exceptions == {"Error: boom", "TypeError: x is not a function"}

CallBehaviours == {"pending"} \cup Exceptions

Responses ==
  {NoResponse,
   StringResponse,
   ArrayResponse,
   ObjectResponse(200, StrBody("ok"), Obj("content-type" :> Str("text/plain")), Undefined),
   ObjectResponse(0, NoBody, Undefined, Str("6")),
   ObjectResponse(500, ErrBody("server error"), Undefined, Str("6")),
   ObjectResponse(900, StrBody("ok"), Undefined, Undefined),
   ErrorResponse(ErrorField(403, ErrBody("denied")), 200, StrBody("ok")),
   ErrorResponse(ErrorField(200, StrBody("fine")), 500, ErrBody("server error")),
   ErrorResponse(ErrorField(0, NoBody), 0, NoBody)}

Settlements ==
  {[how |-> "returned", response |-> r, exception |-> ""] : r \in Responses}
  \cup {[how |-> "rejected", response |-> NoResponse, exception |-> e] : e \in Exceptions}

(***************************************************************************)
(* Spec: the calls arrive one after the other (a call starts when no other *)
(* is in flight).                                                          *)
(***************************************************************************)
NoneInFlight == \A u \in Tasks : task[u].pc = "idle"

Next ==
  \/ \E t \in Tasks, req \in Requests : NoneInFlight /\ ServeWebAction(t, req) /\ UNCHANGED outside
  \/ \E t \in Tasks, call \in SequenceCalls : NoneInFlight /\ InvokeSequence(t, call) /\ UNCHANGED outside
  \/ \E t \in Tasks, loader \in LoaderOutcomes, call \in CallBehaviours : LoaderSettles(t, loader, call) /\ UNCHANGED outside
  \/ \E t \in Tasks, settle \in Settlements : ActionSettles(t, settle) /\ UNCHANGED outside
  \/ \E t \in Tasks : CallerResumes(t) /\ UNCHANGED outside
  \/ \E t \in Tasks : Collect(t) /\ UNCHANGED outside

Spec == Init /\ [][Next]_vars

(***************************************************************************)
(* SpecOverlap: the express server accepts a request while others are in   *)
(* flight; the route handlers interleave at their awaits.  Each task       *)
(* handles one request.  The promise of defaultActionLoader (an async      *)
(* function without an await) and the promise of invokeAction are settled  *)
(* when they are awaited, so their continuations are microtasks: they run  *)
(* before the next request is accepted and before the I/O that settles     *)
(* another action's promise is delivered.                                  *)
(***************************************************************************)
OverlapRequests ==
  {Get_(<<"pkg", "open">>, NoHeaders, <<>>), Get_(<<"pkg", "secure">>, AuthHeaders, <<>>)}

OverlapSettlements ==
  {[how |-> "returned", response |-> NoResponse, exception |-> ""],
   [how |-> "rejected", response |-> NoResponse, exception |-> "Error: boom"]}

MicrotasksDrained == \A u \in Tasks : task[u].pc \notin {"loading", "returned"}

NextOverlap ==
  \/ \E t \in Tasks, req \in OverlapRequests : MicrotasksDrained /\ ServeWebAction(t, req) /\ UNCHANGED outside
  \/ \E t \in Tasks, loader \in LoaderOutcomes : LoaderSettles(t, loader, "pending") /\ UNCHANGED outside
  \/ \E t \in Tasks, settle \in OverlapSettlements : MicrotasksDrained /\ ActionSettles(t, settle) /\ UNCHANGED outside
  \/ \E t \in Tasks : CallerResumes(t) /\ UNCHANGED outside

SpecOverlap == Init /\ [][NextOverlap]_vars

(***************************************************************************)
(* SpecTwin: the same request is served twice, first to the action hidden  *)
(* of the package pkg, which is not a web action, and when that call is    *)
(* over to the action hidden of the package twin, which is the same action *)
(* flagged web.  The loader and the action code of each call end as they   *)
(* like.                                                                   *)
(***************************************************************************)
TwinRequests ==
  {Get_(<<"pkg", "hidden">>, headers, <<>>) : headers \in {NoHeaders, AuthOnlyHeaders, AuthHeaders}}
  \cup {Get_(<<"pkg", "hidden", "some", "path">>, UpperAuthHeaders, "payload" :> Str("1,2,3")),
        Request(<<"pkg", "hidden">>, "POST", AuthHeaders, <<>>,
                ObjectBody("some" :> Str("json")), "application/json")}

\* the request for the web twin of the action
AsWebTwin(req) == [req EXCEPT !.url = <<"twin">> \o SubSeq(req.url, 2, Len(req.url))]

NextTwin ==
  \/ \E req \in TwinRequests : NoneInFlight /\ ServeWebAction(1, req) /\ UNCHANGED outside
  \/ task[1].pc = "done" /\ ServeWebAction(2, AsWebTwin(task[1].request)) /\ UNCHANGED outside
  \/ \E t \in Tasks, loader \in LoaderOutcomes, call \in CallBehaviours : LoaderSettles(t, loader, call) /\ UNCHANGED outside
  \/ \E t \in Tasks, settle \in Settlements : ActionSettles(t, settle) /\ UNCHANGED outside
  \/ \E t \in Tasks : CallerResumes(t) /\ UNCHANGED outside

SpecTwin == Init /\ [][NextTwin]_vars

(***************************************************************************)
(* SpecInterpolate: interpolate is called once, on any string of up to     *)
(* MaxLen characters, on a placeholder between two characters or on        *)
(* Sample, with the table Props.                                           *)
(***************************************************************************)
MaxLen == 5

Alphabet == {"$", "{", "}", "'", "X", " "}

RECURSIVE StringsUpTo(_)
\* the strings of at most n characters
StringsUpTo(n) ==
  IF n = 0 THEN {<<>>}
  ELSE StringsUpTo(n - 1)
       \cup {Append(str, c) : str \in {x \in StringsUpTo(n - 1) : Len(x) = n - 1}, c \in Alphabet}

Placeholders == {<<"$", "{", "X", "}">>, <<"$", "X">>, <<"{", "X", "}">>, <<"$", "{", "Y", "}">>}

\* a placeholder between two characters, quotes among them
Embedded ==
  {<<before>> \o placeholder \o <<behind>> :
     before \in {"'", "\"", Backtick, " "}, behind \in {"'", "\"", Backtick, " ", "X"},
     placeholder \in Placeholders}

\* ' {} ${X} $XXX {XX}
Sample ==
  <<"'", " ", "{", "}", " ", "$", "{", "X", "}", " ", "$", "X", "X", "X", " ", "{", "X", "X", "}">>

ValueStrings == StringsUpTo(MaxLen) \cup Embedded \cup {Sample}

Props == ("X" :> "v") @@ ("XX" :> "w")

InitInterpolate ==
  /\ env = InitEnv
  /\ cwd = InitCwd
  /\ nextId = 1
  /\ task = [t \in Tasks |-> IdleTask]
  /\ valueString \in ValueStrings
  /\ retStr = Undefined
  /\ InitReloading
  /\ InitWatching
  /\ InitSupervision

\* interpolate on a string: retStr = valueString.replace(...)
Interpolate ==
  /\ retStr = Undefined
  /\ retStr' = Str(ReplaceVariables(valueString, Props))
  /\ UNCHANGED <<dispatcher, valueString, reloading, watching, supervision>>

NextInterpolate == Interpolate

SpecInterpolate == InitInterpolate /\ [][NextInterpolate]_vars

(***************************************************************************)
(* SpecTwice: task 1 serves one request; task 2 serves any requests, one   *)
(* after the other, before and after the request of task 1.  The calls do  *)
(* not overlap.                                                            *)
(***************************************************************************)
TwiceRequests ==
  {Get_(<<"pkg", "open">>, NoHeaders, <<>>),
   Get_(<<"pkg", "secure">>, AuthHeaders, <<>>),
   Get_(<<"pkg", "secure">>, NoHeaders, <<>>)}

TwiceSettlements ==
  {[how |-> "returned", response |-> r, exception |-> ""] :
     r \in {NoResponse,
            ObjectResponse(200, StrBody("ok"), Undefined, Str("6")),
            ObjectResponse(500, ErrBody("server error"), Undefined, Str("6"))}}
  \cup {[how |-> "rejected", response |-> NoResponse, exception |-> "Error: boom"]}

\* no call is between its entry and its response
NoneRunning == \A u \in Tasks : task[u].pc \in {"idle", "done"}

NextTwice ==
  \/ \E req \in TwiceRequests : task[1].pc = "idle" /\ NoneRunning /\ ServeWebAction(1, req) /\ UNCHANGED outside
  \/ \E req \in TwiceRequests : NoneRunning /\ ServeWebAction(2, req) /\ UNCHANGED outside
  \/ \E t \in Tasks, loader \in LoaderOutcomes, call \in CallBehaviours : LoaderSettles(t, loader, call) /\ UNCHANGED outside
  \/ \E t \in Tasks, settle \in TwiceSettlements : ActionSettles(t, settle) /\ UNCHANGED outside
  \/ \E t \in Tasks : CallerResumes(t) /\ UNCHANGED outside
  \/ Collect(2) /\ UNCHANGED outside

SpecTwice == Init /\ [][NextTwice]_vars

(***************************************************************************)
(* SpecReload: the action builder replaces the built modules while         *)
(* requests are served with defaultActionLoader.  require.cache holds the  *)
(* modules under the path they were required with.                         *)
(***************************************************************************)
MaxBuilds == 2

\* a loader that evicts nothing
EvictNothing(cache, actionPath) == cache

\* delete require.cache[actionPath]
Evict(cache, actionPath) == [path \in DOMAIN cache \ {actionPath} |-> cache[path]]

\* the cache after require(actionPath): a cached module is not loaded again
Require(cache, actionPath) ==
  IF actionPath \in DOMAIN cache THEN cache ELSE cache @@ (actionPath :> built[actionPath])

\* the action builder writes the module again
BuildAction(actionPath) ==
  /\ built[actionPath] < MaxBuilds
  /\ built' = [built EXCEPT ![actionPath] = @ + 1]
  /\ UNCHANGED <<dispatcher, interpolation, watching, supervision, requireCache, loadCall, lastRun>>

\* invokeAction calls defaultActionLoader: require throws when there is no
\* file, and the invocation returns; otherwise main of the module is returned
DefaultActionLoader(packageName, actionName) ==
  LET actionPath == ActionPath(DistFolder, packageName, actionName)
      evicted == Evict(requireCache, actionPath)
  IN  /\ loadCall.pc = "idle"
      /\ actionPath \in ActionPaths
      /\ IF built[actionPath] = 0
         THEN requireCache' = evicted /\ UNCHANGED loadCall
         ELSE /\ requireCache' = Require(evicted, actionPath)
              /\ loadCall' = [pc |-> "loaded", path |-> actionPath,
                              actionFunction |-> Require(evicted, actionPath)[actionPath],
                              builtAtLoad |-> built[actionPath],
                              evicted |-> IF actionPath \in DOMAIN requireCache
                                          THEN requireCache[actionPath] ELSE 0]
      /\ UNCHANGED <<dispatcher, interpolation, watching, supervision, built, lastRun>>

\* invokeAction calls the function the loader returned
ActionFunctionRuns ==
  /\ loadCall.pc = "loaded"
  /\ lastRun' = [path |-> loadCall.path, version |-> loadCall.actionFunction,
                 builtAtLoad |-> loadCall.builtAtLoad, evicted |-> loadCall.evicted]
  /\ loadCall' = NoLoadCall
  /\ UNCHANGED <<dispatcher, interpolation, watching, supervision, built, requireCache>>

NextReload ==
  \/ \E actionPath \in ActionPaths : BuildAction(actionPath)
  \/ \E actionName \in {"open", "secure"} : DefaultActionLoader("pkg", actionName)
  \/ ActionFunctionRuns

SpecReload == Init /\ [][NextReload]_vars

(***************************************************************************)
(* SpecWatcher: the actions watcher.  The watcher reports changed files to *)
(* the handler createChangeHandler returned; the handler awaits            *)
(* buildActions, watcher.close() and the handler it creates for the file   *)
(* that changed during the build.  That handler has a closure of its own,  *)
(* which no change event reaches: it builds its file and returns.  A call  *)
(* of handlerCalls is at pc building (line 85), closing (line 91),         *)
(* nestedBuilding or nestedClosing (line 96, the created handler being at  *)
(* line 85 or 91).                                                         *)
(***************************************************************************)
MaxChanges == 4

\* the files the watcher reports: the sources of two actions and a file that
\* belongs to no action
WatchedFiles == {"actions/a.js", "actions/b.js", "actions/notes.txt"}

\* getActionNameFromPath
getActionNameFromPath(filePath) ==
  CASE filePath = "actions/a.js" -> <<"a">>
    [] filePath = "actions/b.js" -> <<"b">>
    [] OTHER -> <<>>

\* the buildActions calls in flight
BuildsInFlight == {k \in DOMAIN handlerCalls : handlerCalls[k].pc \in {"building", "nestedBuilding"}}

\* buildActions is called for the actions of filePath
BuildStarted(log, filePath) ==
  [log EXCEPT !.unbuilt = @ \ {filePath},
              !.lateBuilds = IF log.failed THEN @ + 1 ELSE @]

\* the calls without call k
Without(calls, k) == SubSeq(calls, 1, k - 1) \o SubSeq(calls, k + 1, Len(calls))

\* lines 93 to 98 of a call that is past its try statement; calls are the
\* other calls at an await
AfterTry(calls, log) ==
  IF fileChanged
  THEN /\ fileChanged' = FALSE
       /\ IF getActionNameFromPath(undeployedFile) = <<>>
          THEN /\ buildInProgress' = FALSE
               /\ handlerCalls' = calls
               /\ watchLog' = log
          ELSE /\ buildInProgress' = FALSE
               /\ handlerCalls' = Append(calls, [pc |-> "nestedBuilding", filePath |-> undeployedFile])
               /\ watchLog' = BuildStarted(log, undeployedFile)
  ELSE /\ buildInProgress' = FALSE
       /\ handlerCalls' = calls
       /\ watchLog' = log
       /\ UNCHANGED fileChanged

\* the watcher reports a change: the registered handler runs to its first
\* await or to its end
Change(filePath) ==
  /\ ~watcherClosed
  /\ watchLog.changes < MaxChanges
  /\ LET log == [watchLog EXCEPT !.changes = @ + 1]
     IN  IF buildInProgress
         THEN /\ undeployedFile' = filePath
              /\ fileChanged' = TRUE
              /\ watchLog' = [log EXCEPT !.unbuilt = IF BuildsInFlight # {} /\ getActionNameFromPath(filePath) # <<>>
                                                     THEN @ \cup {filePath} ELSE @]
              /\ UNCHANGED <<buildInProgress, handlerCalls>>
         ELSE IF getActionNameFromPath(filePath) = <<>>
         THEN AfterTry(handlerCalls, log) /\ UNCHANGED undeployedFile
         ELSE /\ buildInProgress' = TRUE
              /\ handlerCalls' = Append(handlerCalls, [pc |-> "building", filePath |-> filePath])
              /\ watchLog' = BuildStarted(log, filePath)
              /\ UNCHANGED <<fileChanged, undeployedFile>>
  /\ UNCHANGED <<dispatcher, interpolation, reloading, supervision, watcherClosed>>

\* buildActions resolves: the call goes on behind its try statement; the
\* created handler returns and the call that awaits it ends at line 98
BuildSucceeds(k) ==
  /\ k \in DOMAIN handlerCalls
  /\ \/ /\ handlerCalls[k].pc = "building"
        /\ AfterTry(Without(handlerCalls, k), watchLog)
     \/ /\ handlerCalls[k].pc = "nestedBuilding"
        /\ buildInProgress' = FALSE
        /\ handlerCalls' = Without(handlerCalls, k)
        /\ UNCHANGED <<fileChanged, watchLog>>
  /\ UNCHANGED <<dispatcher, interpolation, reloading, supervision, undeployedFile, watcherClosed>>

\* buildActions rejects: the catch block calls watcher.close() and awaits it
BuildFails(k) ==
  /\ k \in DOMAIN handlerCalls
  /\ handlerCalls[k].pc \in {"building", "nestedBuilding"}
  /\ handlerCalls' = [handlerCalls EXCEPT ![k].pc = IF @ = "building" THEN "closing" ELSE "nestedClosing"]
  /\ watcherClosed' = TRUE
  /\ watchLog' = [watchLog EXCEPT !.failed = TRUE]
  /\ UNCHANGED <<dispatcher, interpolation, reloading, supervision, buildInProgress, fileChanged, undeployedFile>>

\* watcher.close() resolves
CloseSettles(k) ==
  /\ k \in DOMAIN handlerCalls
  /\ \/ /\ handlerCalls[k].pc = "closing"
        /\ AfterTry(Without(handlerCalls, k), watchLog)
     \/ /\ handlerCalls[k].pc = "nestedClosing"
        /\ buildInProgress' = FALSE
        /\ handlerCalls' = Without(handlerCalls, k)
        /\ UNCHANGED <<fileChanged, watchLog>>
  /\ UNCHANGED <<dispatcher, interpolation, reloading, supervision, undeployedFile, watcherClosed>>

NextWatcher ==
  \/ \E filePath \in WatchedFiles : Change(filePath)
  \/ \E k \in 1..MaxChanges : BuildSucceeds(k)
  \/ \E k \in 1..MaxChanges : BuildFails(k)
  \/ \E k \in 1..MaxChanges : CloseSettles(k)

SpecWatcher == Init /\ [][NextWatcher]_vars

(***************************************************************************)
(* SpecAgents: the agent runner.  runDev detects the agents of the         *)
(* manifest and has the runner start them; restartAgents restarts agents   *)
(* on the ports they had; stopAll signals the processes of the table.  A   *)
(* child process exits when it will, signalled or not, and its exit event  *)
(* runs the handler startAgent registered for it.  The waits of the runner *)
(* (1000 ms after a start, 500 ms after a stop) end when their timers      *)
(* fire, whatever the child processes have done by then.                   *)
(***************************************************************************)
MaxRestarts == 2

\* a manifest whose agents have names of their own, and one in which two
\* packages define an agent of the same name
UniqueNames ==
  << [name |-> "first", actions |-> << [name |-> "chat", runtime |-> "nodejs:22"],
                                       [name |-> "plain", runtime |-> "nodejs:18"] >>],
     [name |-> "second", actions |-> << [name |-> "helper", runtime |-> "nodejs:22"] >>] >>

SharedName ==
  << [name |-> "first", actions |-> << [name |-> "chat", runtime |-> "nodejs:22"],
                                       [name |-> "plain", runtime |-> "nodejs:18"] >>],
     [name |-> "second", actions |-> << [name |-> "chat", runtime |-> "nodejs:22"] >>] >>

Manifests == {UniqueNames, SharedName}

\* detectAgents: actionInfo of the actions of one package
ActionInfos(pkg) ==
  [k \in 1..Len(pkg.actions) |->
     [name |-> pkg.actions[k].name, runtime |-> pkg.actions[k].runtime, package |-> pkg.name]]

RECURSIVE AllActionInfos(_)
AllActionInfos(packages) ==
  IF packages = <<>> THEN <<>>
  ELSE ActionInfos(Head(packages)) \o AllActionInfos(Tail(packages))

\* action.runtime && action.runtime === 'nodejs:22'
IsAgent(actionInfo) == actionInfo.runtime = "nodejs:22"

IsRegularAction(actionInfo) == ~IsAgent(actionInfo)

detectAgents(packages) ==
  LET agents == SelectSeq(AllActionInfos(packages), IsAgent)
  IN  [agents |-> agents,
       regularActions |-> SelectSeq(AllActionInfos(packages), IsRegularAction),
       hasAgents |-> Len(agents) > 0]

basePort == 9200

\* debugPort = null
NoDebugPort == 0

\* Map.prototype.set and Map.prototype.delete
MapSet(map, key, value) == [k \in DOMAIN map \cup {key} |-> IF k = key THEN value ELSE map[k]]

MapDelete(map, key) == [k \in DOMAIN map \ {key} |-> map[k]]

\* spawn('node', nodeArgs, ...)
Spawn(procs, agent, port, debugPort) ==
  Append(procs, [agent |-> agent, port |-> port, debugPort |-> debugPort,
                 alive |-> TRUE, killed |-> FALSE])

\* process.kill('SIGTERM') on the processes pids: a signal reaches a process
\* that has not exited
Kill(procs, pids) ==
  [p \in DOMAIN procs |-> IF p \in pids /\ procs[p].alive
                          THEN [procs[p] EXCEPT !.killed = TRUE] ELSE procs[p]]

\* startAgent up to its await: the process is spawned and entered in the
\* table under agent.name
startAgent(agent, port, debugPort) ==
  /\ spawned' = Spawn(spawned, agent, port, debugPort)
  /\ processes' = MapSet(processes, agent.name,
                         [process |-> Len(spawned) + 1, port |-> port, debugPort |-> debugPort])

\* startAgents, to the await of its first startAgent
StartAgents(agents, debugMode) ==
  /\ runnerCall.op = "none"
  /\ ~runnerLog.started
  /\ startAgent(agents[1], basePort, IF debugMode THEN 9229 ELSE NoDebugPort)
  /\ runnerCall' = [NoRunnerCall EXCEPT !.op = "startAgents", !.agents = agents, !.i = 1,
                                         !.pc = "starting", !.debugMode = debugMode]
  /\ runnerLog' = [runnerLog EXCEPT !.started = TRUE, !.agents = agents]
  /\ UNCHANGED <<dispatcher, interpolation, reloading, watching>>

\* startAgents: the wait of startAgent is over; the next agent is started,
\* or startAgents returns
AgentStarted ==
  /\ runnerCall.op = "startAgents"
  /\ IF runnerCall.i < Len(runnerCall.agents)
     THEN /\ startAgent(runnerCall.agents[runnerCall.i + 1], basePort + runnerCall.i,
                        IF runnerCall.debugMode THEN 9229 + runnerCall.i ELSE NoDebugPort)
          /\ runnerCall' = [runnerCall EXCEPT !.i = @ + 1]
     ELSE /\ runnerCall' = NoRunnerCall
          /\ UNCHANGED <<processes, spawned>>
  /\ UNCHANGED <<dispatcher, interpolation, reloading, watching, runnerLog>>

\* restartAgents: the first of agents[i], agents[i+1], ... that the table
\* has an entry for, 0 when there is none
RECURSIVE NextRunning(_, _)
NextRunning(agents, i) ==
  IF i > Len(agents) THEN 0
  ELSE IF agents[i].name \in DOMAIN processes THEN i
  ELSE NextRunning(agents, i + 1)

\* restartAgents from agents[i] to its next await or its end: the agents
\* that are not in the table are skipped, the process of the next one is
\* signalled and its entry deleted
RestartFrom(agents, i) ==
  LET j == NextRunning(agents, i)
  IN  IF j = 0
      THEN /\ runnerCall' = NoRunnerCall
           /\ UNCHANGED <<processes, spawned>>
      ELSE LET processInfo == processes[agents[j].name]
           IN  /\ spawned' = IF ~spawned[processInfo.process].killed
                             THEN Kill(spawned, {processInfo.process}) ELSE spawned
               /\ processes' = MapDelete(processes, agents[j].name)
               /\ runnerCall' = [NoRunnerCall EXCEPT !.op = "restartAgents", !.agents = agents,
                                  !.i = j, !.pc = "stopping", !.port = processInfo.port,
                                  !.debugPort = processInfo.debugPort]

\* the arguments of restartAgents: the detected agents (k = 0), or the k-th
RestartList(agents, k) ==
  IF k = 0 THEN agents ELSE IF k \in DOMAIN agents THEN <<agents[k]>> ELSE <<>>

\* the number of agents of a manifest
MaxAgents == Len(detectAgents(SharedName).agents)

\* restartAgents is called
RestartAgents(agents) ==
  /\ runnerCall.op = "none"
  /\ runnerLog.started
  /\ agents # <<>>
  /\ ~runnerLog.stopped
  /\ runnerLog.restarts < MaxRestarts
  /\ RestartFrom(agents, 1)
  /\ runnerLog' = [runnerLog EXCEPT !.restarts = @ + 1, !.restarted = {}]
  /\ UNCHANGED <<dispatcher, interpolation, reloading, watching>>

\* restartAgents: the wait for the process to stop is over; the agent is
\* started with the port and the debug port it had
AgentStopped ==
  /\ runnerCall.op = "restartAgents"
  /\ runnerCall.pc = "stopping"
  /\ startAgent(runnerCall.agents[runnerCall.i], runnerCall.port, runnerCall.debugPort)
  /\ runnerCall' = [runnerCall EXCEPT !.pc = "starting"]
  /\ runnerLog' = [runnerLog EXCEPT !.restarted = @ \cup
                     {[name |-> runnerCall.agents[runnerCall.i].name, port |-> runnerCall.port,
                       debugPort |-> runnerCall.debugPort, process |-> Len(spawned) + 1]}]
  /\ UNCHANGED <<dispatcher, interpolation, reloading, watching>>

\* restartAgents: the wait of startAgent is over; the loop goes on
AgentRestarted ==
  /\ runnerCall.op = "restartAgents"
  /\ runnerCall.pc = "starting"
  /\ RestartFrom(runnerCall.agents, runnerCall.i + 1)
  /\ UNCHANGED <<dispatcher, interpolation, reloading, watching, runnerLog>>

\* stopAll: the processes of the table are signalled and the table is cleared
StopAll ==
  /\ runnerCall.op = "none"
  /\ runnerLog.started
  /\ ~runnerLog.stopped
  /\ IF DOMAIN processes = {}
     THEN UNCHANGED <<processes, spawned>>
     ELSE /\ spawned' = Kill(spawned, {processes[name].process : name \in DOMAIN processes})
          /\ processes' = EmptyMap
  /\ runnerLog' = [runnerLog EXCEPT !.stopped = TRUE]
  /\ UNCHANGED <<dispatcher, interpolation, reloading, watching, runnerCall>>

\* the child process pid exits: proc.on('exit') deletes the entry of its
\* agent's name
Exit(pid) ==
  /\ pid \in DOMAIN spawned
  /\ spawned[pid].alive
  /\ spawned' = [spawned EXCEPT ![pid].alive = FALSE]
  /\ processes' = MapDelete(processes, spawned[pid].agent.name)
  /\ UNCHANGED <<dispatcher, interpolation, reloading, watching, runnerCall, runnerLog>>

\* the child processes the runner can have spawned
MaxSpawned == 2 + 2 * MaxRestarts

NextAgents ==
  \/ \E packages \in Manifests, debugMode \in BOOLEAN :
       StartAgents(detectAgents(packages).agents, debugMode)
  \/ AgentStarted
  \/ \E k \in 0..MaxAgents : RestartAgents(RestartList(runnerLog.agents, k))
  \/ AgentStopped
  \/ AgentRestarted
  \/ StopAll
  \/ \E pid \in 1..MaxSpawned : Exit(pid)

SpecAgents == Init /\ [][NextAgents]_vars

(***************************************************************************)
(* Properties                                                              *)
(***************************************************************************)
\* the header object carries a header of that name, in any spelling
HasHeader(headers, name) == \E k \in DOMAIN headers : toLowerCase(k) = name

\* the headers of the envelope (params.__ow_headers), {} when there are none
EnvelopeHeaders(params) ==
  IF Get(params, "__ow_headers").t = "object" THEN params["__ow_headers"].o ELSE <<>>

\* the action the current invocation of task t is for
InvokedAction(t) == ConfigAction(task[t].packageName, task[t].actionName)

\* C1: an invocation of an action annotated require-adobe-auth whose envelope
\* headers carry no authorization header returns exactly
\* {statusCode: 401, body: {error: 'cannot authorize request, reason: missing
\* authorization header'}}, and neither the loader nor the action function
\* has been called.
C1_MissingAuthorizationIs401 ==
  \A t \in Tasks :
    (/\ task[t].pc = "returned"
     /\ InvokedAction(t).requireAdobeAuth
     /\ ~HasHeader(EnvelopeHeaders(task[t].params), "authorization"))
    => /\ task[t].result =
            [isNull |-> FALSE, props |-> {"statusCode", "body"}, statusCode |-> 401,
             body |-> [t |-> "object", text |-> "",
                       error |-> "cannot authorize request, reason: missing authorization header"],
             headers |-> Undefined, error |-> NoError, payload |-> Undefined]
       /\ task[t].loaderCalls = 0
       /\ task[t].functionCalls = 0

C1_Witness ==
  \E t \in Tasks :
    /\ task[t].pc = "returned"
    /\ InvokedAction(t).requireAdobeAuth
    /\ ~HasHeader(EnvelopeHeaders(task[t].params), "authorization")
    /\ task[t].result.statusCode = 401

\* C2: when an invocation of invokeAction has returned, whatever its outcome,
\* process.env and the working directory are what they were when the
\* invocation began (no other invocation runs meanwhile under Spec).
C2_RestoredOnReturn ==
  \A t \in Tasks :
    task[t].pc = "returned" => (env = task[t].entryEnv /\ cwd = task[t].entryCwd)

\* C3: in a sequence, once a step's InvocationResult has statusCode >= 400,
\* no later step is loaded or invoked and the sequence's result is that
\* step's result.
C3_SequenceShortCircuit ==
  \A t \in Tasks :
    task[t].kind = "sequence" =>
      \A k \in 1..Len(task[t].results) :
        task[t].results[k].statusCode >= 400
        => /\ k = Len(task[t].results)
           /\ task[t].i = k
           /\ Len(task[t].loaded) <= k
           /\ Len(task[t].invoked) <= k
           /\ task[t].pc = "done" => task[t].result = task[t].results[k]

C3_Witness ==
  \E t \in Tasks :
    /\ task[t].kind = "sequence"
    /\ task[t].pc = "done"
    /\ Len(task[t].actions) = 2
    /\ Len(task[t].results) = 1
    /\ task[t].results[1].statusCode >= 400
    /\ task[t].invoked = <<"open">>

\* C4: a request whose package/item resolves to a sequence is invoked through
\* the Sequence Invoker, and the HTTP response carries the status code and
\* body of the sequence's result.
C4_SequenceIsServed ==
  \A t \in Tasks :
    (/\ task[t].kind = "http"
     /\ task[t].pc = "done"
     /\ ConfigSequence(task[t].packageName, task[t].itemName).defined)
    => /\ task[t].invoker = "invokeSequence"
       /\ task[t].http.sent = 1
       /\ task[t].http.status = task[t].result.statusCode
       /\ task[t].http.body = task[t].result.body

\* C5: whatever the action returns or throws, serveWebAction sends exactly one
\* HTTP response and does not throw.
C5_ExactlyOneResponse ==
  \A t \in Tasks :
    (task[t].kind = "http" /\ task[t].pc = "done")
    => (task[t].http.sent = 1 /\ ~task[t].http.threw)

\* C6: a request to an action that requires auth whose own HTTP headers carry
\* no authorization header is answered 401 and the action is not executed,
\* whatever the query string, the static inputs and the body contain.
C6_AuthGateNotBypassed ==
  \A t \in Tasks :
    (/\ task[t].kind = "http"
     /\ task[t].pc \in {"returned", "done"}
     /\ task[t].invoker = "invokeAction"
     /\ InvokedAction(t).requireAdobeAuth
     /\ ~HasHeader(task[t].reqHeaders, "authorization"))
    => (task[t].result.statusCode = 401 /\ task[t].functionCalls = 0)

\* C7: once all overlapping invocations have completed (each of them having
\* run its action), process.env and the working directory equal their values
\* before the first one began.
C7_NothingLeftAfterOverlap ==
  (\A t \in Tasks : task[t].pc = "done" /\ task[t].functionCalls = 1)
  => (env = InitEnv /\ cwd = InitCwd)

\* C8: snapshot/restore is not mutually exclusive across requests: an action's
\* code can run while another invocation's activation id, action-name marker
\* or working directory is in effect (C8_Witness is such a run); it sees
\* values other than its own only when another invocation wrote process.env
\* or the cwd during its own invocation.
C8_ExposedOnlyByOverlap ==
  \A t \in Tasks : task[t].exposed => task[t].disturbed

C8_Witness ==
  \E t \in Tasks, u \in Tasks :
    /\ t # u
    /\ task[t].pc = "running"
    /\ task[u].pc = "running"
    /\ task[t].actionName # task[u].actionName
    /\ env.actId = task[u].actId
    /\ env.actionName = "/ns/pkg/" \o task[u].actionName
    /\ cwd = <<"actions", task[u].actionName>>

\* C9: if the action function throws synchronously or returns a rejected
\* promise, the result is exactly {statusCode: 400, body: {error: "Response
\* is not valid 'message/http'."}}, the same for every exception.
C9_ExceptionIs400 ==
  \A t \in Tasks :
    (task[t].pc = "returned" /\ task[t].how \in {"threw", "rejected"})
    => task[t].result =
         [isNull |-> FALSE, props |-> {"statusCode", "body"}, statusCode |-> 400,
          body |-> [t |-> "object", text |-> "", error |-> "Response is not valid 'message/http'."],
          headers |-> Undefined, error |-> NoError, payload |-> Undefined]

C9_Witness ==
  \E t \in Tasks :
    /\ task[t].pc = "returned"
    /\ task[t].how = "rejected"
    /\ task[t].exception = "TypeError: x is not a function"
    /\ task[t].result.statusCode = 400

\* C10 as stated: when the loader fails for action <name>, because the module
\* does not exist or because it has no usable export, the action is not
\* executed and the result is {statusCode: 400, body: {error: "Response is
\* not valid 'message/http'. <name> action not found, or does not export
\* main"}}.
C10_LoadFailureNamesAction ==
  \A t \in Tasks :
    (task[t].pc = "returned" /\ task[t].loader \in {"rejects", "undefined"})
    => /\ task[t].functionCalls = 0
       /\ task[t].result.statusCode = 400
       /\ task[t].result.body.error =
            "Response is not valid 'message/http'. " \o task[t].actionName
            \o " action not found, or does not export main"

\* C10 amended: when the loader throws (the built module does not exist or
\* fails to load) the result is the 400 above, naming the action; when the
\* module loads but exports no main, the result is {statusCode: 400, body:
\* {error: "Response is not valid 'message/http'."}}, without the action's
\* name.  In both cases the action is not executed.
C10_LoadFailureIs400 ==
  \A t \in Tasks :
    (task[t].pc = "returned" /\ task[t].loader \in {"rejects", "undefined"})
    => /\ task[t].functionCalls = 0
       /\ task[t].result.props = {"statusCode", "body"}
       /\ task[t].result.statusCode = 400
       /\ task[t].result.body.t = "object"
       /\ task[t].result.body.error =
            IF task[t].loader = "rejects"
            THEN "Response is not valid 'message/http'. " \o task[t].actionName
                 \o " action not found, or does not export main"
            ELSE "Response is not valid 'message/http'."

C10_Witness ==
  \E t \in Tasks :
    /\ task[t].pc = "returned"
    /\ task[t].loader = "undefined"
    /\ task[t].loaderCalls = 1
    /\ task[t].result.statusCode = 400

\* C11: an invocation whose action returns no value yields statusCode 204 and
\* body ''; an invocation whose action returns a truthy value that carries no
\* statusCode (none at its top level, none in an error field) yields
\* statusCode 200.
C11_DefaultStatusCodes ==
  \A t \in Tasks :
    (task[t].pc = "returned" /\ task[t].how = "returned")
    => /\ task[t].response.t = "undefined"
          => (task[t].result.statusCode = 204 /\ task[t].result.body = [t |-> "string", text |-> "", error |-> ""])
       /\ (/\ task[t].response.t \in {"object", "array", "string"}
           /\ task[t].response.statusCode = 0
           /\ task[t].response.error.truthy => task[t].response.error.statusCode = 0)
          => task[t].result.statusCode = 200

\* a sequence whose first step returned nothing (204, '') and whose second
\* step returned an object without a statusCode (200)
C11_Witness ==
  \E t \in Tasks :
    /\ task[t].kind = "sequence"
    /\ task[t].pc = "returned"
    /\ task[t].how = "returned"
    /\ Len(task[t].results) = 2
    /\ task[t].results[1].statusCode = 204
    /\ task[t].results[1].body = [t |-> "string", text |-> "", error |-> ""]
    /\ task[t].response.t = "object"
    /\ task[t].response.statusCode = 0
    /\ ~task[t].response.error.truthy
    /\ task[t].result.statusCode = 200

\* C12: if the returned object carries an error field of the shape
\* {statusCode, body}, the InvocationResult's statusCode and body are that
\* nested pair, whatever the top-level statusCode and body are.
C12_ErrorFieldSupersedes ==
  \A t \in Tasks :
    (/\ task[t].pc = "returned"
     /\ task[t].how = "returned"
     /\ task[t].response.t = "object"
     /\ task[t].response.error.truthy
     /\ task[t].response.error.statusCode # 0
     /\ task[t].response.error.body.t # "undefined")
    => /\ task[t].result.statusCode = task[t].response.error.statusCode
       /\ task[t].result.body = task[t].response.error.body

\* the nested pair is {200, 'fine'}, the top level says 500
C12_Witness ==
  \E t \in Tasks :
    /\ task[t].pc = "returned"
    /\ task[t].how = "returned"
    /\ task[t].response.error.truthy
    /\ task[t].response.statusCode = 500
    /\ task[t].result.statusCode = 200
    /\ task[t].result.body = [t |-> "string", text |-> "fine", error |-> ""]

\* the action of the k-th listed step of the sequence task t runs
StepAction(t, k) == ConfigAction(task[t].packageName, join(trim(task[t].actions[k]), ""))

\* C13: every step of a sequence after the first receives exactly
\* __ow_headers and __ow_method of the original request, overlaid by the
\* package-level static inputs, then by the step's action-level static inputs
\* (both as the configuration holds them), then by every field of the
\* previous step's InvocationResult; no other field of the original request
\* reaches it.
C13_LaterStepParams ==
  \A t \in Tasks :
    task[t].kind = "sequence" =>
      \A k \in 2..Len(task[t].passed) :
        LET params == task[t].passed[k]
            previous == task[t].results[k - 1]
            packageInputs == ActionConfig[task[t].packageName].inputs
            actionInputs == StepAction(t, k).inputs
            original == task[t].sequenceParams
        IN  /\ DOMAIN params = {"__ow_headers", "__ow_method"} \cup DOMAIN packageInputs
                                \cup DOMAIN actionInputs \cup previous.props
            /\ \A key \in DOMAIN params :
                 params[key] =
                   IF key \in previous.props THEN ResultProperties(previous)[key]
                   ELSE IF key \in DOMAIN actionInputs THEN actionInputs[key]
                   ELSE IF key \in DOMAIN packageInputs THEN packageInputs[key]
                   ELSE original[key]

\* the second step of `chain` is entered after the first returned {payload:
\* '6'}: it gets that payload, not the request's, the result's body, not its
\* static input `body`, its own `shared`, the package's pkgInput, the
\* request's headers, and no __ow_path and no __ow_query
C13_Witness ==
  \E t \in Tasks :
    /\ task[t].kind = "sequence"
    /\ task[t].pc = "running"
    /\ Len(task[t].passed) = 2
    /\ Get(task[t].sequenceParams, "payload") = Str("1,2,3")
    /\ Get(task[t].passed[2], "payload") = Str("6")
    /\ Get(task[t].passed[2], "body") = Str("")
    /\ Get(task[t].passed[2], "shared") = Str("secure")
    /\ Get(task[t].passed[2], "pkgInput") = Str("pkg")
    /\ Get(task[t].passed[2], "__ow_headers") = Get(task[t].sequenceParams, "__ow_headers")
    /\ "__ow_path" \notin DOMAIN task[t].passed[2]
    /\ "__ow_query" \notin DOMAIN task[t].passed[2]

\* the names of the steps of the sequence task t runs, in the listed order
StepNames(t) == [k \in 1..Len(task[t].actions) |-> join(trim(task[t].actions[k]), "")]

\* C14: the steps of a sequence are invoked in the listed order, each once,
\* each only after the previous step's result is available; when no step
\* fails (every listed step exists and every result is below 400), every
\* step has been invoked and the sequence's result is the last step's
\* InvocationResult.
C14_StepsInOrder ==
  \A t \in Tasks :
    task[t].kind = "sequence" =>
      /\ Len(task[t].invoked) <= Len(task[t].actions)
      /\ task[t].invoked = SubSeq(StepNames(t), 1, Len(task[t].invoked))
      /\ task[t].pc = "running" => Len(task[t].results) = Len(task[t].invoked) - 1
      /\ (/\ task[t].pc = "done"
          /\ Len(task[t].actions) >= 1
          /\ \A k \in 1..Len(task[t].actions) : StepAction(t, k).defined
          /\ \A k \in 1..Len(task[t].results) : task[t].results[k].statusCode < 400)
         => /\ task[t].invoked = StepNames(t)
            /\ Len(task[t].results) = Len(task[t].actions)
            /\ task[t].result = task[t].results[Len(task[t].results)]

C14_Witness ==
  \E t \in Tasks :
    /\ task[t].kind = "sequence"
    /\ task[t].pc = "done"
    /\ task[t].invoked = <<"open", "secure">>
    /\ Len(task[t].results) = 2
    /\ task[t].results[1].statusCode < 400
    /\ task[t].results[2].statusCode < 400
    /\ task[t].result = task[t].results[2]

\* C15: if the k-th listed step does not exist in the package's action map
\* and no earlier step failed, then when the sequence is over steps 1..k-1
\* have been invoked, no later step has been loaded or invoked, and the
\* result is exactly {statusCode: 400, body: {error: 'Sequence component does
\* not exist.'}}; the steps before k have run (C15_Witness): the check is
\* made at step k.
C15_MissingComponent ==
  \A t \in Tasks :
    (task[t].kind = "sequence" /\ task[t].pc = "done") =>
      \A k \in 1..Len(task[t].actions) :
        (/\ ~StepAction(t, k).defined
         /\ \A j \in 1..(k - 1) : StepAction(t, j).defined
         /\ Len(task[t].results) = k - 1
         /\ \A j \in 1..(k - 1) : task[t].results[j].statusCode < 400)
        => /\ task[t].invoked = SubSeq(StepNames(t), 1, k - 1)
           /\ task[t].loaded = SubSeq(StepNames(t), 1, k - 1)
           /\ task[t].result =
                [isNull |-> FALSE, props |-> {"statusCode", "body"}, statusCode |-> 400,
                 body |-> [t |-> "object", text |-> "", error |-> "Sequence component does not exist."],
                 headers |-> Undefined, error |-> NoError, payload |-> Undefined]

\* `open, ghost`: open has run and returned 200 before ghost is found missing
C15_Witness ==
  \E t \in Tasks :
    /\ task[t].kind = "sequence"
    /\ task[t].pc = "done"
    /\ StepNames(t) = <<"open", "ghost">>
    /\ task[t].invoked = <<"open">>
    /\ Len(task[t].results) = 1
    /\ task[t].results[1].statusCode = 200
    /\ task[t].result.statusCode = 400
    /\ task[t].result.body.error = "Sequence component does not exist."

\* C16: every step of a sequence, the first included, receives its own
\* action-level static inputs (where the previous step's result does not
\* overlay them); the first step additionally receives the sequence
\* invocation's top-level params.
C16_EveryStepGetsItsInputs ==
  \A t \in Tasks :
    task[t].kind = "sequence" =>
      \A k \in 1..Len(task[t].passed) :
        /\ \A key \in DOMAIN StepAction(t, k).inputs :
             /\ key \in DOMAIN task[t].passed[k]
             /\ (k = 1 \/ key \notin task[t].results[k - 1].props)
                => task[t].passed[k][key] = StepAction(t, k).inputs[key]
        /\ k = 1 => \A key \in DOMAIN task[t].sequenceParams :
                      /\ key \in DOMAIN task[t].passed[1]
                      /\ key \notin DOMAIN StepAction(t, 1).inputs
                         => task[t].passed[1][key] = task[t].sequenceParams[key]

\* C17: if the sequence's list of actions is empty (no actions attribute, or
\* an empty one) or the sequence reference is undefined, invokeSequence
\* returns null and no action has been loaded or invoked.
C17_EmptySequenceIsNull ==
  \A t \in Tasks :
    (/\ task[t].kind = "sequence"
     /\ task[t].pc = "done"
     /\ StepNames(t) \in {<<>>, <<"">>})
    => /\ task[t].result.isNull
       /\ task[t].loaded = <<>>
       /\ task[t].invoked = <<>>

\* C18: when the requested item is defined as an action of the package, be
\* it also defined as a sequence, the action is the item resolved and
\* invoked.
C18_ActionBeforeSequence ==
  \A t \in Tasks :
    (/\ task[t].kind = "http"
     /\ task[t].pc # "idle"
     /\ ConfigAction(task[t].packageName, task[t].itemName).defined)
    => task[t].invoker = "invokeAction"

\* the envelope headers carry a header of that name, in any spelling, with a
\* value that is not empty
HeaderSent(headers, name) ==
  \E k \in DOMAIN headers : toLowerCase(k) = name /\ Truthy(headers[k])

\* invokeAction has got past its Auth Gate (it has called the loader)
GatePassed(t) == task[t].pc \in {"loading", "running", "returned"} /\ task[t].loaderCalls = 1

\* invokeAction has returned from its Auth Gate
GateRejected(t) == task[t].pc = "returned" /\ task[t].loaderCalls = 0

ResolvesToNothing(t) ==
  /\ ~ConfigAction(task[t].packageName, task[t].itemName).defined
  /\ ~ConfigSequence(task[t].packageName, task[t].itemName).defined

\* task t has answered 404 'The requested resource does not exist.' and has
\* loaded and executed nothing
AnsweredNotFound(t) ==
  /\ task[t].pc = "done"
  /\ task[t].http.sent = 1
  /\ task[t].http.status = 404
  /\ task[t].http.body = ErrBody("The requested resource does not exist.")
  /\ task[t].loaderCalls = 0
  /\ task[t].functionCalls = 0
  /\ task[t].loaded = <<>>
  /\ task[t].invoked = <<>>

SameOutcome(t, u) ==
  /\ task[t].loader = task[u].loader
  /\ task[t].how = task[u].how
  /\ task[t].exception = task[u].exception
  /\ task[t].response = task[u].response

\* the two calls went through the same steps and produced the same response
SameResponse(t, u) ==
  /\ task[t].passed = task[u].passed
  /\ task[t].loaderCalls = task[u].loaderCalls
  /\ task[t].functionCalls = task[u].functionCalls
  /\ task[t].result = task[u].result
  /\ task[t].http = task[u].http

C24_MethodAndHeadersFromRequest ==
  \A t \in Tasks :
    (task[t].kind = "http" /\ task[t].pc # "idle" /\ task[t].passed # <<>>)
      => /\ Get(task[t].passed[1], "__ow_method") = Str(toLowerCase(task[t].request.method))
         /\ Get(task[t].passed[1], "__ow_headers")
              = Obj(Spread(task[t].request.headers, "x-forwarded-for" :> Str("127.0.0.1")))

\* the action the request of task t resolved to
ServedAction(t) == ConfigAction(task[t].packageName, task[t].itemName)

\* task t has handed an envelope to the action its request resolved to
EnvelopeHanded(t) ==
  task[t].kind = "http" /\ task[t].invoker = "invokeAction" /\ task[t].passed # <<>>

\* the envelope serveWebAction handed to the action
Envelope(t) == task[t].passed[1]

\* the fields of the body that are merged into the envelope
MergedBody(t) ==
  IF /\ task[t].request.method = "POST"
     /\ task[t].request.body.t = "object"
     /\ ~isRawWebAction(ServedAction(t))
     /\ task[t].request.is \in {"application/json", "application/x-www-form-urlencoded"}
  THEN task[t].request.body.o ELSE <<>>

\* a static input as the action receives it
Resolved(t, value) == interpolate(value, EnvTable(task[t].entryEnv))

RawPost(t) ==
  /\ EnvelopeHanded(t)
  /\ isRawWebAction(ServedAction(t))
  /\ task[t].request.method = "POST"
  /\ task[t].request.body.t # "null"

\* C27: for a raw web action receiving a POST body: a form-encoded body is
\* put into __ow_body as a reconstituted query string, not base64-encoded; a
\* body of any other content type is put into __ow_body through the raw-body
\* transform (a string is base64-encoded, a buffer is base64-encoded
\* directly, a non-empty object is JSON-stringified then base64-encoded, an
\* empty object or empty body becomes the empty string).
C27_RawBody ==
  \A t \in Tasks :
    RawPost(t) =>
      LET body == task[t].request.body
      IN  Get(Envelope(t), "__ow_body") =
            Str(IF task[t].request.is = "application/x-www-form-urlencoded"
                THEN URLSearchParamsToString(body.o)
                ELSE CASE body.t = "string" -> base64(body.s)
                       [] body.t = "buffer" -> IF body.s = "" THEN "" ELSE base64(body.s)
                       [] body.t = "object" -> IF DOMAIN body.o = {} THEN ""
                                               ELSE base64(JSONstringify(body.o)))

\* a form-encoded body has reached a raw action as a query string
C27_Witness ==
  \E t \in Tasks :
    /\ RawPost(t)
    /\ task[t].request.is = "application/x-www-form-urlencoded"
    /\ task[t].request.body.o = ("some" :> Str("form")) @@ ("payload" :> Str("1"))
    /\ Envelope(t)["__ow_body"] = Str("qs[payload=1;some=form;]")

C29_PathIsRemainder ==
  \A t \in Tasks :
    EnvelopeHanded(t) =>
      LET url == task[t].request.url
      IN  Get(Envelope(t), "__ow_path") =
            Str(CASE Len(url) = 2 -> ""
                  [] Len(url) = 3 -> url[3]
                  [] Len(url) = 4 -> url[3] \o "/" \o url[4])

\* a request with two more segments and a query, a static input or a body
\* field named __ow_path has handed the two segments joined by '/'
C29_Witness ==
  \E t \in Tasks :
    /\ EnvelopeHanded(t)
    /\ Len(task[t].request.url) = 4
    /\ \/ "__ow_path" \in DOMAIN task[t].request.query
       \/ "__ow_path" \in DOMAIN ServedAction(t).inputs
       \/ "__ow_path" \in DOMAIN MergedBody(t)
    /\ Envelope(t)["__ow_path"] = Str(task[t].request.url[3] \o "/" \o task[t].request.url[4])

\* the placeholder ${NAME}, $NAME or {NAME} that starts at position i, NAME
\* being the whole run of word characters
OccurrenceAt(str, i) ==
  LET n == WordRun(str, i + 1)
      k == WordRun(str, i + 2)
  IN  IF CharAt(str, i) = "$" /\ CharAt(str, i + 1) = "{" /\ k >= 1 /\ CharAt(str, i + 2 + k) = "}"
      THEN [len |-> k + 3, name |-> SubSeq(str, i + 2, i + 1 + k)]
      ELSE IF CharAt(str, i) = "$" /\ n >= 1
      THEN [len |-> n + 1, name |-> SubSeq(str, i + 1, i + n)]
      ELSE IF CharAt(str, i) = "{" /\ n >= 1 /\ CharAt(str, i + 1 + n) = "}"
      THEN [len |-> n + 2, name |-> SubSeq(str, i + 1, i + n)]
      ELSE NoMatch

RECURSIVE AllUnquotedFrom(_, _)
\* no placeholder from position i on has a quote character next to it
AllUnquotedFrom(str, i) ==
  IF i > Len(str) THEN TRUE
  ELSE LET occurrence == OccurrenceAt(str, i)
       IN  IF occurrence.len = 0 THEN AllUnquotedFrom(str, i + 1)
           ELSE /\ ~IsQuote(CharAt(str, i - 1))
                /\ ~IsQuote(CharAt(str, i + occurrence.len))
                /\ AllUnquotedFrom(str, i + occurrence.len)

RECURSIVE SubstitutedFrom(_, _, _)
\* the string from position i on with every placeholder replaced, as a
\* whole, by the table's value for its name, '' when the table has none
SubstitutedFrom(str, i, table) ==
  IF i > Len(str) THEN ""
  ELSE LET occurrence == OccurrenceAt(str, i)
           name == Concat(occurrence.name)
       IN  IF occurrence.len = 0 THEN str[i] \o SubstitutedFrom(str, i + 1, table)
           ELSE (IF name \in DOMAIN table THEN table[name] ELSE "")
                \o SubstitutedFrom(str, i + occurrence.len, table)

RECURSIVE SubstitutedUnlessEnclosed(_, _, _)
\* the string from position i on with every placeholder replaced as a whole,
\* but for the placeholders between two quote characters, which are kept
SubstitutedUnlessEnclosed(str, i, table) ==
  IF i > Len(str) THEN ""
  ELSE LET occurrence == OccurrenceAt(str, i)
           name == Concat(occurrence.name)
           enclosed == IsQuote(CharAt(str, i - 1)) /\ IsQuote(CharAt(str, i + occurrence.len))
       IN  IF occurrence.len = 0 THEN str[i] \o SubstitutedUnlessEnclosed(str, i + 1, table)
           ELSE (IF enclosed THEN Concat(SubSeq(str, i, i + occurrence.len - 1))
                 ELSE IF name \in DOMAIN table THEN table[name] ELSE "")
                \o SubstitutedUnlessEnclosed(str, i + occurrence.len, table)

\* C31 as stated: a placeholder occurrence is left unchanged if and only if
\* it is immediately preceded and immediately followed by a quote character
\* (single quote, double quote or backtick); an occurrence with a quote on
\* one side only, or on neither side, is substituted whole.
C31_KeptIffEnclosed ==
  retStr # Undefined => retStr = Str(SubstitutedUnlessEnclosed(valueString, 1, Props))

\* C32: every invocation executes the module as currently built at the
\* action's build-output path: if the built module is replaced between two
\* requests, the second request runs the new code and never a cached earlier
\* load.  The code an invocation runs is the one that was built when the
\* invocation loaded it.
C32_RunsTheModuleAsBuilt ==
  /\ loadCall.pc = "loaded" => loadCall.actionFunction = loadCall.builtAtLoad
  /\ lastRun # NoRun => lastRun.version = lastRun.builtAtLoad

\* the module had been loaded as first built, was built again, and the next
\* request ran the second build
C32_Witness ==
  /\ lastRun # NoRun
  /\ lastRun.evicted = 1
  /\ lastRun.builtAtLoad = 2
  /\ lastRun.version = 2

\* the two calls were for the same action with the same envelope
SameInput(t, u) ==
  /\ task[t].packageName = task[u].packageName
  /\ task[t].itemName = task[u].itemName
  /\ task[t].passed = task[u].passed

FunctionReturned(t) ==
  task[t].pc = "returned" /\ task[t].how = "returned" /\ task[t].functionCalls = 1

\* the fields of the returned value other than statusCode, headers and body
OtherFields(response) == response.props \ {"statusCode", "headers", "body"}

\* C34: the fields of an action's returned object other than statusCode,
\* headers and body are carried into the InvocationResult if and only if the
\* return value is a non-array object and the resulting status is below 400;
\* for a result with status >= 400 only headers, statusCode and body are
\* returned.
C34_OtherFieldsCarried ==
  \A t \in Tasks :
    FunctionReturned(t) =>
      LET response == task[t].response
          result == task[t].result
      IN  IF response.t = "object" /\ result.statusCode < 400
          THEN /\ result.props = OtherFields(response) \cup {"headers", "statusCode", "body"}
               /\ result.payload = response.payload
               /\ result.error = response.error
          ELSE /\ result.props = {"headers", "statusCode", "body"}
               /\ result.payload = Undefined
               /\ result.error = NoError

\* the field payload of {payload: '6'} is in the result, with status 200
C34_Witness ==
  \E t \in Tasks :
    /\ FunctionReturned(t)
    /\ task[t].response.t = "object"
    /\ OtherFields(task[t].response) = {"payload"}
    /\ task[t].result.statusCode = 200
    /\ "payload" \in task[t].result.props
    /\ task[t].result.payload = Str("6")

\* C35 as stated: for one watcher, at most one buildActions call is in
\* flight at any time: a change event that arrives while a build is in
\* progress never starts a second, concurrent build.
C35_OneBuildInFlight == Cardinality(BuildsInFlight) <= 1

\* C36 as stated: every file change reported while a build is in progress is
\* built after the current build completes: no changed file is dropped, also
\* when several different files change during one build.  When the handler
\* has nothing left to do and no build has failed, every such file has been
\* passed to buildActions since.
C36_NoChangeDropped ==
  (handlerCalls = <<>> /\ ~fileChanged /\ ~watchLog.failed) => watchLog.unbuilt = {}

\* C37 as stated: once a build fails, auto refresh stops: the watcher is
\* closed and no further buildActions call is started afterwards, including
\* for changes that were queued during the failed build.
C37_NoBuildAfterFailure ==
  /\ watchLog.failed => watcherClosed
  /\ watchLog.lateBuilds = 0

\* C38 as stated: after restartAgents completes, every restarted agent whose
\* new process is alive has an entry in the process table of the runner with
\* the same port and debug port as before the restart, whenever the exit
\* event of the old process is delivered.
C38_RestartedAgentsInTable ==
  (runnerCall.op = "none" /\ ~runnerLog.stopped) =>
    \A r \in runnerLog.restarted :
      spawned[r.process].alive =>
        /\ r.name \in DOMAIN processes
        /\ processes[r.name].port = r.port
        /\ processes[r.name].debugPort = r.debugPort

\* C39 as stated: every live agent process the runner has spawned stays in
\* its process table until that process exits, so that stopAll() signals
\* every live agent process, also when two packages define an agent with the
\* same action name.  A process the runner has not signalled is the process
\* of its agent's entry, and after stopAll every live process is signalled.
C39_LiveAgentsInTable ==
  /\ \A pid \in DOMAIN spawned :
       (spawned[pid].alive /\ ~spawned[pid].killed) =>
          /\ spawned[pid].agent.name \in DOMAIN processes
          /\ processes[spawned[pid].agent.name].process = pid
  /\ runnerLog.stopped => \A pid \in DOMAIN spawned : spawned[pid].alive => spawned[pid].killed

====
